---- MODULE Spec2Model ----
(***************************************************************************)
(* Russian-rules checkers (shashki): the rule engine of                    *)
(* src/rules/checkersRules.ts and the optimistic-concurrency game-state    *)
(* protocol of src/services/gameService.ts, driven by the client of        *)
(* src/App.tsx, against a transactional document store.                    *)
(*                                                                         *)
(* Wall-clock values (createdAt, expireAt, lastMove.ts,                    *)
(* takebackRequest.createdAt) are TTL/display data and are not modelled.   *)
(* A field that is absent (undefined) and a field that is null are both    *)
(* written Null (records) or None (strings).                               *)
(***************************************************************************)
EXTENDS Integers, Sequences, FiniteSets, TLC

\* ------------------------------------------------------------------ types

\* null for an optional record (Piece | null, previousState, lastMove, ...)
Null == [null |-> TRUE]
\* null for an optional string (player id, winner, rematchId)
None == "null"

WHITE == "WHITE"
BLACK == "BLACK"
WAITING == "WAITING"
ACTIVE == "ACTIVE"
FINISHED == "FINISHED"
DRAW == "DRAW"

BOARD_SIZE == 8
Idx == 0 .. (BOARD_SIZE - 1)

Pos(r, c) == [row |-> r, col |-> c]
Piece(color, isKing) == [color |-> color, isKing |-> isKing]
Other(color) == IF color = WHITE THEN BLACK ELSE WHITE

InBoard(r, c) == r >= 0 /\ r < BOARD_SIZE /\ c >= 0 /\ c < BOARD_SIZE

EmptyBoard == [r \in Idx |-> [c \in Idx |-> Null]]

\* a board with the pieces of the set ps of <<row, col, color, isKing>>
BoardOf(ps) ==
  [r \in Idx |-> [c \in Idx |->
     IF \E p \in ps : p[1] = r /\ p[2] = c
     THEN LET p == CHOOSE q \in ps : q[1] = r /\ q[2] = c IN Piece(p[3], p[4])
     ELSE Null]]

\* ------------------------------------------------------------ rule engine

initializeBoard ==
  [row \in Idx |-> [col \in Idx |->
     IF (row + col) % 2 = 1
     THEN IF row < 3 THEN Piece(BLACK, FALSE)
          ELSE IF row > 4 THEN Piece(WHITE, FALSE)
          ELSE Null
     ELSE Null]]

SomePos(s, r, c) == \E i \in 1 .. Len(s) : s[i].row = r /\ s[i].col = c

isPromotionRow(color, r) ==
  (color = WHITE /\ r = 0) \/ (color = BLACK /\ r = 7)

Directions4 == << <<-1, -1>>, <<-1, 1>>, <<1, -1>>, <<1, 1>> >>

\* 'if (first.length > 0) first, else second'
OrElse(first, second) == IF Len(first) > 0 THEN first ELSE second

\* the flying king's while loop of getSimpleMoves, from square (r, c) on
RECURSIVE KingSlide(_, _, _, _, _, _)
KingSlide(board, from, r, c, dr, dc) ==
  IF ~InBoard(r, c) THEN <<>>
  ELSE IF board[r][c] # Null THEN <<>>
  ELSE << [from |-> from, to |-> Pos(r, c), captures |-> <<>>,
           path |-> <<Pos(r, c)>>, becomesKing |-> FALSE] >>
       \o KingSlide(board, from, r + dr, c + dc, dr, dc)

\* getSimpleMoves taking row 0 for the promotion row of either color
getSimpleMovesWhiteRow(board, from, piece) ==
  LET directions ==
        IF piece.isKing THEN Directions4
        ELSE IF piece.color = WHITE THEN << <<-1, -1>>, <<-1, 1>> >>
        ELSE << <<1, -1>>, <<1, 1>> >>
      D(i) ==
        LET dr == directions[i][1]
            dc == directions[i][2]
            r == from.row + dr
            c == from.col + dc
        IN IF piece.isKing THEN KingSlide(board, from, r, c, dr, dc)
           ELSE IF InBoard(r, c) /\ board[r][c] = Null
                THEN << [from |-> from, to |-> Pos(r, c), captures |-> <<>>,
                         path |-> <<Pos(r, c)>>,
                         becomesKing |-> (r = 0)] >>
                ELSE <<>>
  IN IF Len(directions) = 4 THEN D(1) \o D(2) \o D(3) \o D(4)
     ELSE D(1) \o D(2)

getSimpleMoves(board, from, piece) ==
  LET directions ==
        IF piece.isKing THEN Directions4
        ELSE IF piece.color = WHITE THEN << <<-1, -1>>, <<-1, 1>> >>
        ELSE << <<1, -1>>, <<1, 1>> >>
      D(i) ==
        LET dr == directions[i][1]
            dc == directions[i][2]
            r == from.row + dr
            c == from.col + dc
        IN IF piece.isKing THEN KingSlide(board, from, r, c, dr, dc)
           ELSE IF InBoard(r, c) /\ board[r][c] = Null
                THEN << [from |-> from, to |-> Pos(r, c), captures |-> <<>>,
                         path |-> <<Pos(r, c)>>,
                         becomesKing |-> isPromotionRow(piece.color, r)] >>
                ELSE <<>>
  IN IF Len(directions) = 4 THEN D(1) \o D(2) \o D(3) \o D(4)
     ELSE D(1) \o D(2)

RECURSIVE getCaptureMoves(_, _, _, _, _, _, _)
RECURSIVE KingLandings(_, _, _, _, _, _, _, _, _, _, _, _)
RECURSIVE KingScan(_, _, _, _, _, _, _, _, _, _)

\* KingLandings emitting the rank the piece had on the square it started from
KingLandingsKeepsRank(board, piece, r, c, landR, landC, dr, dc, currentCaptures, capturedInPath, currentPath, originalStart) ==
  IF ~InBoard(landR, landC) THEN <<>>
  ELSE
    LET destCell == board[landR][landC]
        isStart == landR = originalStart.row /\ landC = originalStart.col
    IN IF destCell # Null /\ ~isStart THEN <<>>
       ELSE
         LET newCaptures == Append(currentCaptures, Pos(r, c))
             newCapturedInPath == Append(capturedInPath, Pos(r, c))
             newPath == Append(currentPath, Pos(landR, landC))
             subsequentMoves ==
               getCaptureMoves(board, Pos(landR, landC), piece, newCaptures,
                               newCapturedInPath, newPath, originalStart)
             here ==
               OrElse(subsequentMoves,
                      << [from |-> originalStart, to |-> Pos(landR, landC),
                          captures |-> newCaptures, path |-> newPath,
                          becomesKing |->
                            board[originalStart.row][originalStart.col].isKing] >>)
         IN here \o KingLandings(board, piece, r, c, landR + dr, landC + dc,
                                 dr, dc, currentCaptures, capturedInPath,
                                 currentPath, originalStart)

\* the inner while loop of the king branch: the landing squares (landR, landC),
\* (landR + dr, landC + dc), ... behind the captured enemy at (r, c)
KingLandings(board, piece, r, c, landR, landC, dr, dc, currentCaptures, capturedInPath, currentPath, originalStart) ==
  IF ~InBoard(landR, landC) THEN <<>>
  ELSE
    LET destCell == board[landR][landC]
        isStart == landR = originalStart.row /\ landC = originalStart.col
    IN IF destCell # Null /\ ~isStart THEN <<>>
       ELSE
         LET newCaptures == Append(currentCaptures, Pos(r, c))
             newCapturedInPath == Append(capturedInPath, Pos(r, c))
             newPath == Append(currentPath, Pos(landR, landC))
             subsequentMoves ==
               getCaptureMoves(board, Pos(landR, landC), piece, newCaptures,
                               newCapturedInPath, newPath, originalStart)
             here ==
               OrElse(subsequentMoves,
                      << [from |-> originalStart, to |-> Pos(landR, landC),
                          captures |-> newCaptures, path |-> newPath,
                          becomesKing |-> TRUE] >>)
         IN here \o KingLandings(board, piece, r, c, landR + dr, landC + dc,
                                 dr, dc, currentCaptures, capturedInPath,
                                 currentPath, originalStart)

\* KingScan jumping the first piece of the diagonal whatever its color
KingScanOverOwn(board, piece, r, c, dr, dc, currentCaptures, capturedInPath, currentPath, originalStart) ==
  IF ~InBoard(r, c) THEN <<>>
  ELSE
    IF board[r][c] # Null
    THEN IF SomePos(capturedInPath, r, c) \/ Pos(r, c) = originalStart THEN <<>>
         ELSE KingLandings(board, piece, r, c, r + dr, c + dc, dr, dc,
                           currentCaptures, capturedInPath, currentPath,
                           originalStart)
    ELSE KingScan(board, piece, r + dr, c + dc, dr, dc,
                  currentCaptures, capturedInPath, currentPath, originalStart)

\* the outer while loop of the king branch: scan the diagonal from (r, c)
KingScan(board, piece, r, c, dr, dc, currentCaptures, capturedInPath, currentPath, originalStart) ==
  IF ~InBoard(r, c) THEN <<>>
  ELSE
    LET cell == board[r][c] IN
    IF cell # Null
    THEN LET isEnemy == cell.color # piece.color
             alreadyCaptured == SomePos(capturedInPath, r, c)
         IN IF ~isEnemy \/ alreadyCaptured THEN <<>>
            ELSE KingLandings(board, piece, r, c, r + dr, c + dc, dr, dc,
                              currentCaptures, capturedInPath, currentPath,
                              originalStart)
    ELSE KingScan(board, piece, r + dr, c + dc, dr, dc,
                  currentCaptures, capturedInPath, currentPath, originalStart)

getCaptureMoves(board, currentPos, piece, currentCaptures, capturedInPath, currentPath, originalStart) ==
  LET D(i) ==
        LET dr == Directions4[i][1]
            dc == Directions4[i][2]
        IN IF piece.isKing
           THEN KingScan(board, piece, currentPos.row + dr, currentPos.col + dc,
                         dr, dc, currentCaptures, capturedInPath, currentPath,
                         originalStart)
           ELSE
             LET captureR == currentPos.row + dr
                 captureC == currentPos.col + dc
                 landR == currentPos.row + 2 * dr
                 landC == currentPos.col + 2 * dc
             IN IF ~InBoard(landR, landC) THEN <<>>
                ELSE
                  LET midPiece == board[captureR][captureC]
                      destCell == board[landR][landC]
                      isEnemy == midPiece # Null /\ midPiece.color # piece.color
                      alreadyCaptured == SomePos(capturedInPath, captureR, captureC)
                      isStart == landR = originalStart.row /\ landC = originalStart.col
                      isOpen == destCell = Null \/ isStart
                  IN IF isEnemy /\ ~alreadyCaptured /\ isOpen
                     THEN
                       LET newCaptures == Append(currentCaptures, Pos(captureR, captureC))
                           newCapturedInPath == Append(capturedInPath, Pos(captureR, captureC))
                           newPath == Append(currentPath, Pos(landR, landC))
                           reachedPromotionRow == isPromotionRow(piece.color, landR)
                           nextPieceState ==
                             IF reachedPromotionRow
                             THEN [piece EXCEPT !.isKing = TRUE] ELSE piece
                           subsequentMoves ==
                             getCaptureMoves(board, Pos(landR, landC), nextPieceState,
                                             newCaptures, newCapturedInPath, newPath,
                                             originalStart)
                       IN OrElse(subsequentMoves,
                                 << [from |-> originalStart, to |-> Pos(landR, landC),
                                     captures |-> newCaptures, path |-> newPath,
                                     becomesKing |-> reachedPromotionRow \/ piece.isKing] >>)
                     ELSE <<>>
  IN D(1) \o D(2) \o D(3) \o D(4)

SelectSeqCaptures(ms) ==
  LET IsCap(m) == Len(m.captures) > 0 IN SelectSeq(ms, IsCap)

\* the moves pushed for the piece on the square pos
PieceMoves(board, turn, pos, piece) ==
  IF piece = Null \/ piece.color # turn THEN <<>>
  ELSE OrElse(getCaptureMoves(board, pos, piece, <<>>, <<>>, <<>>, pos),
              getSimpleMoves(board, pos, piece))

\* the inner for loop: the moves pushed for the squares of row r from column
\* c on
RECURSIVE RowMovesFrom(_, _, _, _)
RowMovesFrom(board, turn, r, c) ==
  IF c >= BOARD_SIZE THEN <<>>
  ELSE PieceMoves(board, turn, Pos(r, c), board[r][c])
       \o RowMovesFrom(board, turn, r, c + 1)

\* the outer for loop: the moves pushed for the squares from (r, c) on,
\* row-major
RECURSIVE MovesFrom(_, _, _, _)
MovesFrom(board, turn, r, c) ==
  IF r >= BOARD_SIZE THEN <<>>
  ELSE RowMovesFrom(board, turn, r, c) \o MovesFrom(board, turn, r + 1, 0)

\* FilterCaptures keeping the simple moves beside the captures
FilterCapturesKeepsAll(allMoves) == allMoves

\* if any capture exists anywhere on the board, only the capture moves
\* the most captures of a move of the list
RECURSIVE LongestIn(_)
LongestIn(ms) ==
  IF Len(ms) = 0 THEN 0
  ELSE IF Len(ms[1].captures) >= LongestIn(Tail(ms)) THEN Len(ms[1].captures)
  ELSE LongestIn(Tail(ms))

\* FilterCaptures keeping the longest chains only
FilterCapturesLongest(allMoves) ==
  LET Longest(m) == Len(m.captures) = LongestIn(allMoves)
  IN SelectSeq(allMoves, Longest)

FilterCaptures(allMoves) ==
  IF \E i \in 1 .. Len(allMoves) : Len(allMoves[i].captures) > 0
  THEN SelectSeqCaptures(allMoves)
  ELSE allMoves

calculateAllowedMoves(board, turn) == FilterCaptures(MovesFrom(board, turn, 0, 0))

\* newBoard of applyMove once the piece p has moved: the captured pieces,
\* removed at the end of the move
RemoveCaptured(newBoard, captures) ==
  [r \in Idx |-> [c \in Idx |->
     IF SomePos(captures, r, c) THEN Null ELSE newBoard[r][c]]]

\* MovePiece putting the piece down with the rank it had
MovePieceKeepsRank(board, move, p) ==
  IF p = Null THEN board
  ELSE RemoveCaptured(
         [board EXCEPT ![move.from.row][move.from.col] = Null,
                       ![move.to.row][move.to.col] = Piece(p.color, p.isKing)],
         move.captures)

\* newBoard of applyMove with the piece p taken from its square and put down
MovePiece(board, move, p) ==
  IF p = Null THEN board
  ELSE RemoveCaptured(
         [board EXCEPT ![move.from.row][move.from.col] = Null,
                       ![move.to.row][move.to.col] =
                          Piece(p.color, p.isKing \/ move.becomesKing)],
         move.captures)

applyMove(board, move) == MovePiece(board, move, board[move.from.row][move.from.col])

\* ---- applyMove in memory

\* A board is an array of row arrays: an array is a reference into a store of
\* arrays, the outer array a function from row indexes to the references of
\* its rows. applyMove assigns cells of row arrays and never changes a piece
\* object, so the piece objects are values here.

\* the references of the rows of the board passed to applyMove
InputRows == [r \in Idx |-> r]

\* the store that holds the board passed to applyMove, and nothing else
StoreOf(board) == [ref \in Idx |-> board[ref]]

\* the board an outer array shows in the store
Deref(store, rows) == [r \in Idx |-> store[rows[r]]]

\* cloneBoard returning the outer array it was given
cloneBoardShared(store, rows) == [store |-> store, rows |-> rows]

\* board.map(row => row.map(...)): a new outer array of new row arrays
cloneBoard(store, rows) ==
  [store |-> [ref \in 0 .. (2 * BOARD_SIZE - 1) |->
                IF ref < BOARD_SIZE THEN store[ref]
                ELSE store[rows[ref - BOARD_SIZE]]],
   rows |-> [r \in Idx |-> BOARD_SIZE + r]]

\* newBoard[pos.row][pos.col] = cell
Assign(store, rows, pos, cell) == [store EXCEPT ![rows[pos.row]][pos.col] = cell]

\* move.captures.forEach(c => newBoard[c.row][c.col] = null), from capture i on
RECURSIVE AssignCaptures(_, _, _, _)
AssignCaptures(store, rows, captures, i) ==
  IF i > Len(captures) THEN store
  ELSE AssignCaptures(Assign(store, rows, captures[i], Null), rows, captures, i + 1)

\* applyMove on the board of the outer array rows: the store it leaves and
\* the outer array it returns
applyMoveIn(store, rows, move) ==
  LET newBoard == cloneBoard(store, rows)
      p == newBoard.store[newBoard.rows[move.from.row]][move.from.col]
  IN IF p = Null THEN newBoard
     ELSE [store |->
             AssignCaptures(
               Assign(Assign(newBoard.store, newBoard.rows, move.from, Null),
                      newBoard.rows, move.to,
                      Piece(p.color, p.isKing \/ move.becomesKing)),
               newBoard.rows, move.captures, 1),
           rows |-> newBoard.rows]

\* ------------------------------------------------------------ the bot

\* The search reads the clock at the entry of minimax and quiescence and at
\* the top of the root loop. The clock does not run backwards: the reads of
\* one search find the time limit not yet passed up to some read, and passed
\* from that read on. now is the number of reads made so far; deadline says
\* whether the limit is passed during the search, and after how many reads.
\* A search returns its value with the reads made so far and with plies, the
\* most moves it applied one below the other under the board it was given.

MAX_DEPTH == 3
MAX_Q_DEPTH == 2
INFINITY == 1000000

SCORES ==
  [WIN |-> 100000, KING |-> 800, PIECE |-> 100, BACK_ROW |-> 40, CENTER |-> 15,
   MOBILITY |-> 2, ADVANCE |-> 8, DEFENSE |-> 10]

MathMax(a, b) == IF a >= b THEN a ELSE b
MathMin(a, b) == IF a <= b THEN a ELSE b

\* a clock that never shows the time limit passed
TimedOutNever(now, deadline) == FALSE

\* Date.now() - searchStartTime > TIMEOUT_MS
TimedOut(now, deadline) == deadline.expires /\ now >= deadline.after

\* value of the piece p on (r, c), as evaluateBoard adds it up
PieceValue(p, r, c) ==
  (IF p.isKing THEN SCORES.KING ELSE SCORES.PIECE)
  + (IF c >= 2 /\ c <= 5 /\ r >= 2 /\ r <= 5 THEN SCORES.CENTER ELSE 0)
  + (IF ~p.isKing
     THEN (IF p.color = WHITE THEN (7 - r) * SCORES.ADVANCE ELSE r * SCORES.ADVANCE)
     ELSE 0)
  + (IF p.color = WHITE /\ r = 7 /\ ~p.isKing THEN SCORES.BACK_ROW ELSE 0)
  + (IF p.color = BLACK /\ r = 0 /\ ~p.isKing THEN SCORES.BACK_ROW ELSE 0)

RECURSIVE RowScore(_, _, _, _)
RECURSIVE RowScoreEnemyMaterial(_, _, _, _)

\* RowScore counting a piece of the other color by its material alone
RowScoreEnemyMaterial(board, color, r, c) ==
  IF c >= 8 THEN 0
  ELSE (IF board[r][c] = Null THEN 0
        ELSE IF board[r][c].color = color THEN PieceValue(board[r][c], r, c)
        ELSE 0 - (IF board[r][c].isKing THEN SCORES.KING ELSE SCORES.PIECE))
       + RowScoreEnemyMaterial(board, color, r, c + 1)

\* the score of the squares of row r from column c on
RowScore(board, color, r, c) ==
  IF c >= 8 THEN 0
  ELSE (IF board[r][c] = Null THEN 0
        ELSE IF board[r][c].color = color THEN PieceValue(board[r][c], r, c)
        ELSE 0 - PieceValue(board[r][c], r, c))
       + RowScore(board, color, r, c + 1)

\* the score of the rows from r on
RECURSIVE ScoreFrom(_, _, _)
ScoreFrom(board, color, r) ==
  IF r >= 8 THEN 0
  ELSE RowScore(board, color, r, 0) + ScoreFrom(board, color, r + 1)

evaluateBoard(board, color) == ScoreFrom(board, color, 0)

\* the moves of ms with n captures, in the order of ms
WithCaptures(ms, n) ==
  LET Has(m) == Len(m.captures) = n IN SelectSeq(ms, Has)

\* moves.sort((a, b) => b.captures.length - a.captures.length): a stable sort,
\* the moves with n captures or fewer
RECURSIVE SortFrom(_, _)
SortFrom(ms, n) ==
  IF n < 0 THEN <<>> ELSE WithCaptures(ms, n) \o SortFrom(ms, n - 1)

\* no chain captures more than the twelve pieces of a side
SortByCaptures(ms) == SortFrom(ms, 12)

\* the side to move at a node of the search
TurnOf(isMaximizing, botColor) == IF isMaximizing THEN botColor ELSE Other(botColor)

RECURSIVE quiescence(_, _, _, _, _, _, _, _)
RECURSIVE minimax(_, _, _, _, _, _, _, _)
RECURSIVE SearchLoop(_, _, _, _, _, _, _, _, _, _, _, _, _)

\* one turn of the for loop of minimax (inQuiescence false) or quiescence
\* (true) on the move at index i, whose search returned child: the new best
\* value and window, then the break or the next turn; deep is the plies of
\* the turns before
SearchStep(board, moves, i, alpha, beta, isMaximizing, botColor, depth, inQuiescence, best, deep, deadline, child) ==
  IF isMaximizing
  THEN IF beta <= MathMax(alpha, child.value)
       THEN [value |-> MathMax(best, child.value), now |-> child.now,
             plies |-> MathMax(deep, child.plies + 1)]
       ELSE SearchLoop(board, moves, i + 1, MathMax(alpha, child.value), beta,
                       isMaximizing, botColor, depth, inQuiescence,
                       MathMax(best, child.value),
                       MathMax(deep, child.plies + 1), child.now, deadline)
  ELSE IF MathMin(beta, child.value) <= alpha
       THEN [value |-> MathMin(best, child.value), now |-> child.now,
             plies |-> MathMax(deep, child.plies + 1)]
       ELSE SearchLoop(board, moves, i + 1, alpha, MathMin(beta, child.value),
                       isMaximizing, botColor, depth, inQuiescence,
                       MathMin(best, child.value),
                       MathMax(deep, child.plies + 1), child.now, deadline)

\* the for loop of minimax or quiescence from the move at index i on
SearchLoop(board, moves, i, alpha, beta, isMaximizing, botColor, depth, inQuiescence, best, deep, now, deadline) ==
  IF i > Len(moves) THEN [value |-> best, now |-> now, plies |-> deep]
  ELSE SearchStep(board, moves, i, alpha, beta, isMaximizing, botColor, depth,
                  inQuiescence, best, deep, deadline,
                  IF inQuiescence
                  THEN quiescence(applyMove(board, moves[i]), alpha, beta,
                                  ~isMaximizing, botColor, depth - 1, now, deadline)
                  ELSE minimax(applyMove(board, moves[i]), depth - 1, alpha, beta,
                               ~isMaximizing, botColor, now, deadline))

\* quiescence after its timeout check, on the moves of the side to move
quiescenceOn(board, alpha, beta, isMaximizing, botColor, qDepth, now, deadline, allMoves) ==
  IF ~(Len(allMoves) > 0 /\ Len(allMoves[1].captures) > 0) \/ qDepth = 0
  THEN [value |-> evaluateBoard(board, botColor), now |-> now, plies |-> 0]
  ELSE SearchLoop(board, SortByCaptures(allMoves), 1, alpha, beta, isMaximizing,
                  botColor, qDepth, TRUE,
                  IF isMaximizing THEN 0 - INFINITY ELSE INFINITY, 0, now,
                  deadline)

quiescence(board, alpha, beta, isMaximizing, botColor, qDepth, now, deadline) ==
  IF TimedOut(now, deadline)
  THEN [value |-> evaluateBoard(board, botColor), now |-> now + 1, plies |-> 0]
  ELSE quiescenceOn(board, alpha, beta, isMaximizing, botColor, qDepth, now + 1,
                    deadline,
                    calculateAllowedMoves(board, TurnOf(isMaximizing, botColor)))

\* minimax after its timeout check and its depth test, on the moves of the
\* side to move
minimaxOn(board, depth, alpha, beta, isMaximizing, botColor, now, deadline, validMoves) ==
  IF Len(validMoves) = 0
  THEN [value |-> IF isMaximizing THEN 0 - SCORES.WIN + depth ELSE SCORES.WIN - depth,
        now |-> now, plies |-> 0]
  ELSE SearchLoop(board, SortByCaptures(validMoves), 1, alpha, beta, isMaximizing,
                  botColor, depth, FALSE,
                  IF isMaximizing THEN 0 - INFINITY ELSE INFINITY, 0, now,
                  deadline)

minimax(board, depth, alpha, beta, isMaximizing, botColor, now, deadline) ==
  IF TimedOut(now, deadline)
  THEN [value |-> evaluateBoard(board, botColor), now |-> now + 1, plies |-> 0]
  ELSE IF depth = 0
  THEN quiescence(board, alpha, beta, isMaximizing, botColor, MAX_Q_DEPTH,
                  now + 1, deadline)
  ELSE minimaxOn(board, depth, alpha, beta, isMaximizing, botColor, now + 1,
                 deadline,
                 calculateAllowedMoves(board, TurnOf(isMaximizing, botColor)))

\* the orders validMoves.sort(() => Math.random() - 0.5) can leave n moves in
Orders(n) ==
  {order \in [1 .. n -> 1 .. n] : \A i, j \in 1 .. n : order[i] = order[j] => i = j}

Shuffled(ms, order) == [i \in 1 .. Len(ms) |-> ms[order[i]]]

RECURSIVE RootLoop(_, _, _, _, _, _, _, _, _)

\* one turn of the root loop on the move at index i, which minimax gave
\* moveValue; deep is the most plies of the searches below the moves before
RootStep(board, botColor, validMoves, i, bestMove, bestValue, deep, deadline, moveValue) ==
  IF moveValue.value > bestValue
  THEN RootLoop(board, botColor, validMoves, i + 1, validMoves[i], moveValue.value,
                MathMax(deep, moveValue.plies), moveValue.now, deadline)
  ELSE RootLoop(board, botColor, validMoves, i + 1, bestMove, bestValue,
                MathMax(deep, moveValue.plies), moveValue.now, deadline)

\* RootLoop returning bestMove as it is
RootLoopNoFallback(board, botColor, validMoves, i, bestMove, bestValue, deep, now, deadline) ==
  IF i > Len(validMoves) \/ TimedOut(now, deadline)
  THEN [move |-> bestMove,
        reads |-> IF i > Len(validMoves) THEN now ELSE now + 1,
        plies |-> deep]
  ELSE RootStep(board, botColor, validMoves, i, bestMove, bestValue, deep, deadline,
                minimax(applyMove(board, validMoves[i]), MAX_DEPTH - 1,
                        0 - INFINITY, INFINITY, FALSE, botColor, now + 1, deadline))

\* the root loop of getSmartBotMove from the move at index i on, and its
\* return
RootLoop(board, botColor, validMoves, i, bestMove, bestValue, deep, now, deadline) ==
  IF i > Len(validMoves) \/ TimedOut(now, deadline)
  THEN [move |-> IF bestMove # Null THEN bestMove ELSE validMoves[1],
        reads |-> IF i > Len(validMoves) THEN now ELSE now + 1,
        plies |-> deep]
  ELSE RootStep(board, botColor, validMoves, i, bestMove, bestValue, deep, deadline,
                minimax(applyMove(board, validMoves[i]), MAX_DEPTH - 1,
                        0 - INFINITY, INFINITY, FALSE, botColor, now + 1, deadline))

\* getSmartBotMove on the legal moves of the bot, shuffled into the order
\* order: the move it returns (Null for null), the clock reads it made and
\* the most plies it searched below a root move
getSmartBotMoveOn(board, botColor, validMoves, order, deadline) ==
  IF Len(validMoves) = 0 THEN [move |-> Null, reads |-> 0, plies |-> 0]
  ELSE IF Len(validMoves) = 1
  THEN [move |-> validMoves[1], reads |-> 0, plies |-> 0]
  ELSE RootLoop(board, botColor, SortByCaptures(Shuffled(validMoves, order)), 1,
                Null, 0 - INFINITY, 0, 0, deadline)

getSmartBotMove(board, botColor, order, deadline) ==
  getSmartBotMoveOn(board, botColor, calculateAllowedMoves(board, botColor),
                    order, deadline)

\* ------------------------------------------------- board serialization

\* The JSON text of a board is modelled row by row: a cell is one token of the
\* text (null, or the piece object of one of the two colors, king or not), and
\* the text of a row is the number its eight tokens spell, the first cell the
\* lowest digit.

\* the token of one cell of the board
CellText(cell) ==
  IF cell = Null THEN 0
  ELSE IF cell.color = WHITE
       THEN (IF cell.isKing THEN 2 ELSE 1)
       ELSE (IF cell.isKing THEN 4 ELSE 3)

\* the cell a token reads as
CellOf(token) ==
  CASE token = 1 -> Piece(WHITE, FALSE)
    [] token = 2 -> Piece(WHITE, TRUE)
    [] token = 3 -> Piece(BLACK, FALSE)
    [] token = 4 -> Piece(BLACK, TRUE)
    [] OTHER -> Null

\* the weights of the eight digits of the text of a row
Weights == <<1, 5, 25, 125, 625, 3125, 15625, 78125>>

RECURSIVE RowText(_, _)
RowText(row, c) ==
  IF c >= BOARD_SIZE THEN 0
  ELSE CellText(row[c]) * Weights[c + 1] + RowText(row, c + 1)

TokenAt(rowText, c) == (rowText \div Weights[c + 1]) % 5

\* JSON.stringify(board): the texts of the rows, row-major
JSONstringify(board) ==
  [i \in 1 .. BOARD_SIZE |-> RowText(board[i - 1], 0)]

\* JSON.parse(text) of a serialized board
JSONparse(text) ==
  [r \in Idx |-> [c \in Idx |-> CellOf(TokenAt(text[r + 1], c))]]

\* ------------------------------------------------------------- the store

\* the game under study and the ids generateId() hands out next
GameId == "g0"
\* the most successor games the model lets proposeRematch create
MaxNewGames == 3
IdPool == <<"g1", "g2", "g3", "g4", "g5", "g6">>
NewIds == SubSeq(IdPool, 1, MaxNewGames)
GameIds == {GameId} \cup {NewIds[i] : i \in 1 .. Len(NewIds)}

Procs == {"p1", "p2", "p3"}

\* the most the version of the game may reach
MaxVersion == 5
\* the most versions a client's record may be behind the stored one when the
\* stored one is written again
MaxLag == 1
\* the most service calls in flight at a time
MaxInflight == 2

VARIABLES
  db,           \* the 'games' collection: id -> Null or [data, updateTime]
  playerId,     \* per client: the id of getPlayerIdentity()
  gameData,     \* per client: the React state gameData (Null: not loaded)
  pendingMove,  \* per client: pendingMoveRef.current
  rematchLoading, \* per client: the React state rematchLoading
  call,         \* per client: the service call in flight (Null: none)
  result        \* how the service call that ended last ended (Null: none yet)

vars == <<db, playerId, gameData, pendingMove, rematchLoading, call, result>>

\* the stored record of the game
Stored == db[GameId].data

createGame(pid, preferredColor, isRandomColor, board) ==
  [ board |-> JSONstringify(board),
    turn |-> WHITE,
    players |-> [white |-> IF preferredColor = WHITE THEN pid ELSE None,
                 black |-> IF preferredColor = BLACK THEN pid ELSE None],
    status |-> WAITING,
    winner |-> None,
    version |-> 0,
    halfMoveClock |-> 0,
    lastMove |-> Null,
    rematchId |-> None,
    metadata |-> [isRandomColor |-> isRandomColor],
    previousState |-> Null,
    takebackRequest |-> Null ]

createOptimisticGameData(pid, myColor, isRandom, initialBoard) ==
  [ board |-> JSONstringify(initialBoard),
    turn |-> WHITE,
    players |-> [white |-> IF myColor = WHITE THEN pid ELSE None,
                 black |-> IF myColor = BLACK THEN pid ELSE None],
    status |-> WAITING,
    winner |-> None,
    version |-> 0,
    halfMoveClock |-> 0,
    lastMove |-> Null,
    rematchId |-> None,
    metadata |-> [isRandomColor |-> isRandom],
    takebackRequest |-> Null,
    previousState |-> Null ]

\* generateId(): an id no stored game has yet
generateId(d) ==
  NewIds[CHOOSE i \in 1 .. Len(NewIds) :
           d[NewIds[i]] = Null /\ \A j \in 1 .. (i - 1) : d[NewIds[j]] # Null]

\* ApplyUpdate taking a nested field path for the whole players map
ApplyUpdateWholeMap(data, upd) ==
  [f \in DOMAIN data |->
     IF f = "players"
     THEN IF "players.white" \in DOMAIN upd \/ "players.black" \in DOMAIN upd
          THEN [white |-> IF "players.white" \in DOMAIN upd
                          THEN upd["players.white"] ELSE None,
                black |-> IF "players.black" \in DOMAIN upd
                          THEN upd["players.black"] ELSE None]
          ELSE data.players
     ELSE IF f \in DOMAIN upd THEN upd[f] ELSE data[f]]

\* a partial field update of a document: the fields of upd replace those of
\* data; 'players.white' and 'players.black' are nested field paths
ApplyUpdate(data, upd) ==
  [f \in DOMAIN data |->
     IF f = "players"
     THEN [white |-> IF "players.white" \in DOMAIN upd
                     THEN upd["players.white"] ELSE data.players.white,
           black |-> IF "players.black" \in DOMAIN upd
                     THEN upd["players.black"] ELSE data.players.black]
     ELSE IF f \in DOMAIN upd THEN upd[f] ELSE data[f]]

\* the games the creator "A" creates: its color, and the board of its editor
InitialBoards ==
  { \* quiet play, and a capture of the last black piece three moves on
    [preferredColor |-> WHITE,
     board |-> BoardOf({<<5, 0, WHITE, FALSE>>, <<2, 3, BLACK, FALSE>>})],
    \* white must capture and promote: one king each remains
    [preferredColor |-> BLACK,
     board |-> BoardOf({<<2, 1, WHITE, FALSE>>, <<1, 2, BLACK, FALSE>>,
                        <<7, 6, BLACK, TRUE>>})],
    \* white is to move and has no move
    [preferredColor |-> WHITE,
     board |-> BoardOf({<<0, 1, WHITE, FALSE>>, <<5, 0, BLACK, FALSE>>})] }

Init ==
  \E created \in InitialBoards, third \in {"B", "C"} :
    /\ db = [g \in GameIds |->
               IF g = GameId
               THEN [data |-> createGame("A", created.preferredColor, FALSE,
                                         created.board),
                     updateTime |-> 0]
               ELSE Null]
    /\ playerId = [p \in Procs |->
                     IF p = "p1" THEN "A" ELSE IF p = "p2" THEN "B" ELSE third]
    /\ gameData = [p \in Procs |->
                     IF p = "p1"
                     THEN createOptimisticGameData("A", created.preferredColor, FALSE,
                                                  created.board)
                     ELSE Null]
    /\ pendingMove = [p \in Procs |-> FALSE]
    /\ rematchLoading = [p \in Procs |-> FALSE]
    /\ call = [p \in Procs |-> Null]
    /\ result = Null

\* ------------------------------------------- the client's derived state

myColor(p) ==
  LET g == gameData[p] IN
  IF g = Null THEN None
  ELSE IF g.players.white = playerId[p] THEN WHITE
  ELSE IF g.players.black = playerId[p] THEN BLACK
  ELSE None

effectiveIsSpectator(p) == gameData[p] # Null /\ myColor(p) = None

isMyTurn(p) ==
  /\ gameData[p] # Null
  /\ gameData[p].status = ACTIVE
  /\ gameData[p].turn = myColor(p)
  /\ ~effectiveIsSpectator(p)

legalMoves(p) ==
  IF gameData[p] = Null \/ myColor(p) = None \/ effectiveIsSpectator(p) THEN <<>>
  ELSE IF gameData[p].status # ACTIVE THEN <<>>
  ELSE calculateAllowedMoves(JSONparse(gameData[p].board), gameData[p].turn)

isParticipant(p) ==
  gameData[p].players.white = playerId[p] \/ gameData[p].players.black = playerId[p]

takebackIncoming(p) ==
  /\ gameData[p] # Null
  /\ gameData[p].takebackRequest # Null
  /\ gameData[p].takebackRequest.requesterId # playerId[p]

takebackSent(p) ==
  /\ gameData[p] # Null
  /\ gameData[p].takebackRequest # Null
  /\ gameData[p].takebackRequest.requesterId = playerId[p]

canRequestTakeback(p) ==
  /\ ~takebackSent(p)
  /\ ~takebackIncoming(p)
  /\ gameData[p].status = ACTIVE
  /\ gameData[p].previousState # Null

\* ------------------------------------------------------ calls in flight

\* A service call and the first run of its transaction's update function are
\* one step (a client acting on a record that has since been written again is
\* the client whose onSnapshot is still to come); the commit of a transaction
\* is a step of its own, and so is every later run of its update function.

\* a service call may start: the client has none in flight (its loading
\* flags), and the version stays within the model's bound
Inflight == {q \in Procs : call[q] # Null}
Proposed == {q \in Procs : rematchLoading[q]}
WithinBounds(inflight) ==
  /\ Cardinality(inflight) < MaxInflight
  /\ Stored.version + Cardinality(inflight \cup Proposed) < MaxVersion
CanCall(p) == call[p] = Null /\ WithinBounds(Inflight)

NewCall(op, args) ==
  [op |-> op, phase |-> "run", args |-> args,
   readTime |-> 0, update |-> Null, ret |-> None]

\* what one run of a transaction's update function comes to: an error thrown,
\* or the buffered partial update (Null: none) and the value returned
Attempt(error, update, ret) == [error |-> error, update |-> update, ret |-> ret]

\* the version a call expects of the stored record (performMove only)
ExpectedVersion(c) ==
  IF c.op = "performMove" THEN c.args.gameData.version ELSE 0

\* the call c of p ends, with the error thrown (None: it resolved) and its value
Finished(p, c, error, ret) ==
  /\ call' = [call EXCEPT ![p] = Null]
  /\ result' = [proc |-> p, op |-> c.op, expected |-> ExpectedVersion(c),
                error |-> error, ret |-> ret]

\* the update function of c returned: its reads and writes await the commit
Buffered(p, c, a) ==
  /\ call' = [call EXCEPT ![p] =
                [c EXCEPT !.phase = "commit", !.readTime = db[GameId].updateTime,
                          !.update = a.update, !.ret = a.ret]]
  /\ UNCHANGED result

\* every client's record is less than MaxLag versions behind the stored one
Seen(q) == IF gameData[q] = Null THEN 0 ELSE gameData[q].version
MayWrite == \A q \in Procs : Stored.version - Seen(q) < MaxLag

Written(data) ==
  db' = [db EXCEPT ![GameId] = [data |-> data, updateTime |-> @.updateTime + 1]]

\* ------------------------------------------------------- subscription

\* the onSnapshot callback of the client, handed the stored record when it is
\* not the record the client holds
OnSnapshot(p) ==
  LET data == Stored IN
  /\ gameData[p] # data
  /\ IF pendingMove[p]
     THEN IF data.version > (IF gameData[p] = Null THEN 0 ELSE gameData[p].version)
          THEN /\ pendingMove' = [pendingMove EXCEPT ![p] = FALSE]
               /\ gameData' = [gameData EXCEPT ![p] = data]
          ELSE UNCHANGED <<pendingMove, gameData>>
     ELSE /\ gameData' = [gameData EXCEPT ![p] = data]
          /\ UNCHANGED pendingMove
  /\ UNCHANGED <<db, playerId, rematchLoading, call, result>>

\* ------------------------------------------------------------- joinGame

GameFull == "Game is full"

\* joinGameTx seating the joiner as black when no slot is empty
joinGameTxOverwrite(data, pid) ==
  IF data.players.white = pid \/ data.players.black = pid
  THEN Attempt(None, Null, None)
  ELSE IF data.players.white = None /\ data.players.black # None
  THEN Attempt(None,
               [status |-> ACTIVE, version |-> data.version + 1]
                 @@ ("players.white" :> pid),
               None)
  ELSE Attempt(None,
               [status |-> ACTIVE, version |-> data.version + 1]
                 @@ ("players.black" :> pid),
               None)

\* joinGameTx without the return for a player who holds a slot
joinGameTxNoRejoin(data, pid) ==
  IF data.players.black = None /\ data.players.white # None
  THEN Attempt(None,
               [status |-> ACTIVE, version |-> data.version + 1]
                 @@ ("players.black" :> pid),
               None)
  ELSE IF data.players.white = None /\ data.players.black # None
  THEN Attempt(None,
               [status |-> ACTIVE, version |-> data.version + 1]
                 @@ ("players.white" :> pid),
               None)
  ELSE Attempt(GameFull, Null, None)

joinGameTx(data, pid) ==
  IF data.players.white = pid \/ data.players.black = pid
  THEN Attempt(None, Null, None)
  ELSE IF data.players.black = None /\ data.players.white # None
  THEN Attempt(None,
               [status |-> ACTIVE, version |-> data.version + 1]
                 @@ ("players.black" :> pid),
               None)
  ELSE IF data.players.white = None /\ data.players.black # None
  THEN Attempt(None,
               [status |-> ACTIVE, version |-> data.version + 1]
                 @@ ("players.white" :> pid),
               None)
  ELSE Attempt(GameFull, Null, None)

NotFound == "Game not found"

\* joinGameOn returning at once, as resignGame does, when there is no record
joinGameOnSilent(doc, pid) ==
  IF doc = Null THEN Attempt(None, Null, None) ELSE joinGameTx(doc.data, pid)

\* the update function of joinGame on the document read, Null when the game
\* id has no record
joinGameOn(doc, pid) ==
  IF doc = Null THEN Attempt(NotFound, Null, None) ELSE joinGameTx(doc.data, pid)

\* one run of the update function of joinGame for the call c
joinGameRun(p, c) ==
  /\ LET a == joinGameOn(db[GameId], c.args.playerId) IN
     IF a.error # None THEN Finished(p, c, a.error, None) ELSE Buffered(p, c, a)
  /\ UNCHANGED <<db, playerId, gameData, pendingMove, rematchLoading>>

handleJoinGame(p) ==
  /\ CanCall(p)
  /\ gameData[p] # Null
  /\ gameData[p].status = WAITING
  /\ ~isParticipant(p)
  /\ joinGameRun(p, NewCall("joinGame", [playerId |-> playerId[p]]))

joinGame(p) ==
  /\ call[p] # Null /\ call[p].op = "joinGame" /\ call[p].phase = "run"
  /\ joinGameRun(p, call[p])

\* ----------------------------------------------------------- performMove

\* the square pairs a client can click to a move: a from and a to of one of
\* its legal moves
FromTo(ms) == {[from |-> ms[i].from, to |-> ms[i].to] : i \in 1 .. Len(ms)}
Clicks(p) == IF call[p] = Null /\ isMyTurn(p) THEN FromTo(legalMoves(p)) ELSE {}

\* legalMoves.find(m => m.from is from and m.to is to): the first such move,
\* as the set of it, empty when there is none
Find(ms, from, to) ==
  {ms[i] : i \in {i \in 1 .. Len(ms) :
                    /\ ms[i].from = from /\ ms[i].to = to
                    /\ \A j \in 1 .. (i - 1) : ~(ms[j].from = from /\ ms[j].to = to)}}

\* the pieces of newBoard of one color, and the kings among them
CountPieces(board, color, kingsOnly) ==
  Cardinality({rc \in Idx \X Idx :
                 /\ board[rc[1]][rc[2]] # Null
                 /\ board[rc[1]][rc[2]].color = color
                 /\ (kingsOnly => board[rc[1]][rc[2]].isKing)})

\* Detected testing for the draw of one king each first
DetectedDrawFirst(gameData_, newBoard, noMoves) ==
  [status |-> IF /\ CountPieces(newBoard, WHITE, FALSE) = 1
                 /\ CountPieces(newBoard, WHITE, TRUE) = 1
                 /\ CountPieces(newBoard, BLACK, FALSE) = 1
                 /\ CountPieces(newBoard, BLACK, TRUE) = 1
              THEN DRAW
              ELSE IF noMoves THEN FINISHED
              ELSE gameData_.status,
   winner |-> IF noMoves THEN gameData_.turn ELSE None]

\* the status and the winner performMove comes to on newBoard; noMoves: the
\* player to move next has no legal move on it
\* Detected leaving the winner unset
DetectedNoWinner(gameData_, newBoard, noMoves) ==
  [status |-> IF noMoves THEN FINISHED
              ELSE IF /\ gameData_.status # FINISHED
                      /\ CountPieces(newBoard, WHITE, FALSE) = 1
                      /\ CountPieces(newBoard, WHITE, TRUE) = 1
                      /\ CountPieces(newBoard, BLACK, FALSE) = 1
                      /\ CountPieces(newBoard, BLACK, TRUE) = 1
              THEN DRAW
              ELSE gameData_.status,
   winner |-> None]

Detected(gameData_, newBoard, noMoves) ==
  [status |-> IF noMoves THEN FINISHED
              ELSE IF /\ gameData_.status # FINISHED
                      /\ CountPieces(newBoard, WHITE, FALSE) = 1
                      /\ CountPieces(newBoard, WHITE, TRUE) = 1
                      /\ CountPieces(newBoard, BLACK, FALSE) = 1
                      /\ CountPieces(newBoard, BLACK, TRUE) = 1
              THEN DRAW
              ELSE gameData_.status,
   winner |-> IF noMoves THEN gameData_.turn ELSE None]

\* performMove up to its transaction, from currentBoard and newBoard on: what
\* kind of move it is, the new board, and the status and the winner detected
performMoveOn(gameData_, move, nextTurn, movingPiece, newBoard) ==
  [isPawnMove |-> movingPiece # Null /\ ~movingPiece.isKing,
   isCapture |-> Len(move.captures) > 0,
   board |-> JSONstringify(newBoard)]
  @@ Detected(gameData_, newBoard,
              Len(calculateAllowedMoves(newBoard, nextTurn)) = 0)

performMovePre(gameData_, move, nextTurn) ==
  performMoveOn(gameData_, move, nextTurn,
                JSONparse(gameData_.board)[move.from.row][move.from.col],
                applyMove(JSONparse(gameData_.board), move))

\* the half-move ceiling of the automatic draw
DrawCeiling == 60

VersionConflict == "Game state has changed, reload recommended"

\* performMoveTx without its version check
performMoveTxUnchecked(freshData, gameData_, move, nextTurn, pre) ==
  Attempt(None,
          [board |-> pre.board,
           turn |-> nextTurn,
           lastMove |-> [from |-> move.from, to |-> move.to, path |-> move.path],
           halfMoveClock |->
             IF pre.isPawnMove \/ pre.isCapture THEN 0 ELSE freshData.halfMoveClock + 1,
           status |-> pre.status,
           winner |-> pre.winner,
           version |-> freshData.version + 1,
           previousState |->
             [board |-> freshData.board, turn |-> freshData.turn,
              halfMoveClock |-> freshData.halfMoveClock,
              lastMove |-> freshData.lastMove],
           takebackRequest |-> Null],
          None)

\* performMoveTx taking the snapshot of the board after the move
performMoveTxLateSnapshot(freshData, gameData_, move, nextTurn, pre) ==
  IF freshData.version # gameData_.version
  THEN Attempt(VersionConflict, Null, None)
  ELSE
    LET newHalfMoveClock ==
          IF pre.isPawnMove \/ pre.isCapture THEN 0 ELSE freshData.halfMoveClock + 1
        status ==
          IF pre.status # FINISHED /\ pre.status # DRAW /\ newHalfMoveClock >= DrawCeiling
          THEN DRAW ELSE pre.status
    IN Attempt(None,
               [board |-> pre.board,
                turn |-> nextTurn,
                lastMove |-> [from |-> move.from, to |-> move.to, path |-> move.path],
                halfMoveClock |-> newHalfMoveClock,
                status |-> status,
                winner |-> pre.winner,
                version |-> freshData.version + 1,
                previousState |->
                  [board |-> pre.board, turn |-> freshData.turn,
                   halfMoveClock |-> freshData.halfMoveClock,
                   lastMove |-> freshData.lastMove],
                takebackRequest |-> Null],
               None)

\* performMoveTx drawing the game only above the ceiling
performMoveTxAboveCeiling(freshData, gameData_, move, nextTurn, pre) ==
  IF freshData.version # gameData_.version
  THEN Attempt(VersionConflict, Null, None)
  ELSE
    LET newHalfMoveClock ==
          IF pre.isPawnMove \/ pre.isCapture THEN 0 ELSE freshData.halfMoveClock + 1
        status ==
          IF pre.status # FINISHED /\ pre.status # DRAW /\ newHalfMoveClock > DrawCeiling
          THEN DRAW ELSE pre.status
    IN Attempt(None,
               [board |-> pre.board,
                turn |-> nextTurn,
                lastMove |-> [from |-> move.from, to |-> move.to, path |-> move.path],
                halfMoveClock |-> newHalfMoveClock,
                status |-> status,
                winner |-> pre.winner,
                version |-> freshData.version + 1,
                previousState |->
                  [board |-> freshData.board, turn |-> freshData.turn,
                   halfMoveClock |-> freshData.halfMoveClock,
                   lastMove |-> freshData.lastMove],
                takebackRequest |-> Null],
               None)

\* performMoveTx leaving the takeback request as it is
performMoveTxKeepsRequest(freshData, gameData_, move, nextTurn, pre) ==
  IF freshData.version # gameData_.version
  THEN Attempt(VersionConflict, Null, None)
  ELSE
    LET newHalfMoveClock ==
          IF pre.isPawnMove \/ pre.isCapture THEN 0 ELSE freshData.halfMoveClock + 1
        status ==
          IF pre.status # FINISHED /\ pre.status # DRAW /\ newHalfMoveClock >= DrawCeiling
          THEN DRAW ELSE pre.status
    IN Attempt(None,
               [board |-> pre.board,
                turn |-> nextTurn,
                lastMove |-> [from |-> move.from, to |-> move.to, path |-> move.path],
                halfMoveClock |-> newHalfMoveClock,
                status |-> status,
                winner |-> pre.winner,
                version |-> freshData.version + 1,
                previousState |->
                  [board |-> freshData.board, turn |-> freshData.turn,
                   halfMoveClock |-> freshData.halfMoveClock,
                   lastMove |-> freshData.lastMove]],
               None)

\* one run of the update function of performMove; pre is what performMove
\* computed before its transaction
\* performMoveTx rejecting only a stored version below the expected one
performMoveTxAtLeast(freshData, gameData_, move, nextTurn, pre) ==
  IF freshData.version < gameData_.version
  THEN Attempt(VersionConflict, Null, None)
  ELSE
    LET newHalfMoveClock ==
          IF pre.isPawnMove \/ pre.isCapture THEN 0 ELSE freshData.halfMoveClock + 1
        status ==
          IF pre.status # FINISHED /\ pre.status # DRAW /\ newHalfMoveClock >= DrawCeiling
          THEN DRAW ELSE pre.status
        previousState ==
          [board |-> freshData.board, turn |-> freshData.turn,
           halfMoveClock |-> freshData.halfMoveClock,
           lastMove |-> freshData.lastMove]
    IN Attempt(None,
               [board |-> pre.board,
                turn |-> nextTurn,
                lastMove |-> [from |-> move.from, to |-> move.to, path |-> move.path],
                halfMoveClock |-> newHalfMoveClock,
                status |-> status,
                winner |-> pre.winner,
                version |-> freshData.version + 1,
                previousState |-> previousState,
                takebackRequest |-> Null],
               None)

performMoveTx(freshData, gameData_, move, nextTurn, pre) ==
  IF freshData.version # gameData_.version
  THEN Attempt(VersionConflict, Null, None)
  ELSE
    LET newHalfMoveClock ==
          IF pre.isPawnMove \/ pre.isCapture THEN 0 ELSE freshData.halfMoveClock + 1
        status ==
          IF pre.status # FINISHED /\ pre.status # DRAW /\ newHalfMoveClock >= DrawCeiling
          THEN DRAW ELSE pre.status
        previousState ==
          [board |-> freshData.board, turn |-> freshData.turn,
           halfMoveClock |-> freshData.halfMoveClock,
           lastMove |-> freshData.lastMove]
    IN Attempt(None,
               [board |-> pre.board,
                turn |-> nextTurn,
                lastMove |-> [from |-> move.from, to |-> move.to, path |-> move.path],
                halfMoveClock |-> newHalfMoveClock,
                status |-> status,
                winner |-> pre.winner,
                version |-> freshData.version + 1,
                previousState |-> previousState,
                takebackRequest |-> Null],
               None)

\* one run of the update function of performMove for the call c; pending and
\* local are the pending flag and the record of the client while the call is
\* in flight. An error thrown lands in the catch of executeMove: the flag is
\* cleared and the record is again the one the move was made on.
performMoveRun(p, c, pending, local) ==
  /\ LET a == performMoveTx(Stored, c.args.gameData, c.args.move, c.args.nextTurn,
                            c.args.pre)
     IN IF a.error # None
        THEN /\ Finished(p, c, a.error, None)
             /\ pendingMove' = [pendingMove EXCEPT ![p] = FALSE]
             /\ gameData' = [gameData EXCEPT ![p] = c.args.gameData]
        ELSE /\ Buffered(p, c, a)
             /\ pendingMove' = [pendingMove EXCEPT ![p] = pending]
             /\ gameData' = [gameData EXCEPT ![p] = local]
  /\ UNCHANGED <<db, playerId, rematchLoading>>

\* executeMove from its guards on
executeMoveOn(p, from, to) ==
  /\ gameData[p] # Null
  /\ isMyTurn(p)
  /\ \E move \in Find(legalMoves(p), from, to) :
       LET nextTurn == IF gameData[p].turn = WHITE THEN BLACK ELSE WHITE
           nextVersion == gameData[p].version + 1
           prevGameData == gameData[p]
       IN \E pre \in {performMovePre(prevGameData, move, nextTurn)},
             nextBoard \in {JSONstringify(applyMove(JSONparse(gameData[p].board), move))} :
            \E c \in {NewCall("performMove",
                              [gameData |-> prevGameData, move |-> move,
                               nextTurn |-> nextTurn, pre |-> pre])},
               nextGameData \in
                 {[gameData[p] EXCEPT
                     !.board = nextBoard,
                     !.turn = nextTurn,
                     !.lastMove = [from |-> move.from, to |-> move.to,
                                   path |-> move.path],
                     !.version = nextVersion,
                     !.takebackRequest = Null]} :
              performMoveRun(p, c, TRUE, nextGameData)

executeMove(p, from, to) == CanCall(p) /\ executeMoveOn(p, from, to)

performMove(p) ==
  /\ call[p] # Null /\ call[p].op = "performMove" /\ call[p].phase = "run"
  /\ performMoveRun(p, call[p], pendingMove[p], gameData[p])

\* -------------------------------------------------------------- takeback

\* requestTakebackUpdate handing the turn to the requester
requestTakebackUpdateTakesTurn(data, pid) ==
  [takebackRequest |-> [requesterId |-> pid], version |-> data.version + 1,
   turn |-> IF data.players.white = pid THEN WHITE ELSE BLACK]

\* the fields requestTakeback updates, the increment resolved on data
requestTakebackUpdate(data, pid) ==
  [takebackRequest |-> [requesterId |-> pid], version |-> data.version + 1]

\* a plain update: no transaction, applied to the stored record at once
requestTakeback(p, c) ==
  /\ Written(ApplyUpdate(Stored, requestTakebackUpdate(Stored, c.args.playerId)))
  /\ Finished(p, c, None, None)
  /\ UNCHANGED <<playerId, gameData, pendingMove, rematchLoading>>

\* the takeback button from its guards on
handleRequestTakebackOn(p) ==
  /\ gameData[p] # Null
  /\ gameData[p].status = ACTIVE /\ gameData[p].winner = None
  /\ ~effectiveIsSpectator(p)
  /\ canRequestTakeback(p)
  /\ requestTakeback(p, NewCall("requestTakeback", [playerId |-> playerId[p]]))

handleRequestTakeback(p) == CanCall(p) /\ MayWrite /\ handleRequestTakebackOn(p)

\* resolveTakebackTx clearing the previous state when it rejects
resolveTakebackTxRejectForgets(data, accepted) ==
  IF ~accepted
  THEN Attempt(None,
               [previousState |-> Null, takebackRequest |-> Null,
                version |-> data.version + 1],
               None)
  ELSE IF data.previousState # Null
  THEN Attempt(None,
               [board |-> data.previousState.board,
                turn |-> data.previousState.turn,
                halfMoveClock |-> data.previousState.halfMoveClock,
                lastMove |-> data.previousState.lastMove,
                previousState |-> Null,
                takebackRequest |-> Null,
                version |-> data.version + 1],
               None)
  ELSE Attempt(None, [takebackRequest |-> Null, version |-> data.version + 1], None)

\* resolveTakebackTx writing nothing when accepted with no previous state
resolveTakebackTxSilent(data, accepted) ==
  IF ~accepted
  THEN Attempt(None, [takebackRequest |-> Null, version |-> data.version + 1], None)
  ELSE IF data.previousState # Null
  THEN Attempt(None,
               [board |-> data.previousState.board,
                turn |-> data.previousState.turn,
                halfMoveClock |-> data.previousState.halfMoveClock,
                lastMove |-> data.previousState.lastMove,
                previousState |-> Null,
                takebackRequest |-> Null,
                version |-> data.version + 1],
               None)
  ELSE Attempt(None, Null, None)

\* resolveTakebackTx restoring all but lastMove
resolveTakebackTxKeepsLastMove(data, accepted) ==
  IF ~accepted
  THEN Attempt(None, [takebackRequest |-> Null, version |-> data.version + 1], None)
  ELSE IF data.previousState # Null
  THEN Attempt(None,
               [board |-> data.previousState.board,
                turn |-> data.previousState.turn,
                halfMoveClock |-> data.previousState.halfMoveClock,
                previousState |-> Null,
                takebackRequest |-> Null,
                version |-> data.version + 1],
               None)
  ELSE Attempt(None, [takebackRequest |-> Null, version |-> data.version + 1], None)

\* resolveTakebackTx putting a game taken back into play again
resolveTakebackTxReopens(data, accepted) ==
  IF ~accepted
  THEN Attempt(None, [takebackRequest |-> Null, version |-> data.version + 1], None)
  ELSE IF data.previousState # Null
  THEN Attempt(None,
               [board |-> data.previousState.board,
                turn |-> data.previousState.turn,
                halfMoveClock |-> data.previousState.halfMoveClock,
                lastMove |-> data.previousState.lastMove,
                previousState |-> Null,
                takebackRequest |-> Null,
                status |-> ACTIVE,
                winner |-> None,
                version |-> data.version + 1],
               None)
  ELSE Attempt(None, [takebackRequest |-> Null, version |-> data.version + 1], None)

resolveTakebackTx(data, accepted) ==
  IF ~accepted
  THEN Attempt(None, [takebackRequest |-> Null, version |-> data.version + 1], None)
  ELSE IF data.previousState # Null
  THEN Attempt(None,
               [board |-> data.previousState.board,
                turn |-> data.previousState.turn,
                halfMoveClock |-> data.previousState.halfMoveClock,
                lastMove |-> data.previousState.lastMove,
                previousState |-> Null,
                takebackRequest |-> Null,
                version |-> data.version + 1],
               None)
  ELSE Attempt(None, [takebackRequest |-> Null, version |-> data.version + 1], None)

resolveTakebackRun(p, c) ==
  /\ Buffered(p, c, resolveTakebackTx(Stored, c.args.accepted))
  /\ UNCHANGED <<db, playerId, gameData, pendingMove, rematchLoading>>

\* the answer to a takeback request from its guard on
handleResolveTakebackOn(p, accepted) ==
  /\ takebackIncoming(p)
  /\ resolveTakebackRun(p, NewCall("resolveTakeback", [accepted |-> accepted]))

handleResolveTakeback(p, accepted) ==
  CanCall(p) /\ handleResolveTakebackOn(p, accepted)

resolveTakeback(p) ==
  /\ call[p] # Null /\ call[p].op = "resolveTakeback" /\ call[p].phase = "run"
  /\ resolveTakebackRun(p, call[p])

\* ------------------------------------------------------------ resignation

\* resignGameTx writing the result under the version it read
resignGameTxSameVersion(data, pid) ==
  LET winner == IF data.players.black = pid THEN WHITE
                ELSE IF data.players.white = pid THEN BLACK
                ELSE None
  IN IF winner # None
     THEN Attempt(None,
                  [status |-> FINISHED, winner |-> winner, version |-> data.version],
                  None)
     ELSE Attempt(None, Null, None)

\* resignGameTx taking an id in neither slot for the white player
resignGameTxAnyone(data, pid) ==
  LET winner == IF data.players.black = pid THEN WHITE ELSE BLACK
  IN Attempt(None,
             [status |-> FINISHED, winner |-> winner, version |-> data.version + 1],
             None)

resignGameTx(data, pid) ==
  LET winner == IF data.players.black = pid THEN WHITE
                ELSE IF data.players.white = pid THEN BLACK
                ELSE None
  IN IF winner # None
     THEN Attempt(None,
                  [status |-> FINISHED, winner |-> winner, version |-> data.version + 1],
                  None)
     ELSE Attempt(None, Null, None)

resignGameRun(p, c) ==
  /\ Buffered(p, c, resignGameTx(Stored, c.args.playerId))
  /\ UNCHANGED <<db, playerId, gameData, pendingMove, rematchLoading>>

\* the click on the resign button of an online game
resignClick(p) ==
  /\ CanCall(p)
  /\ gameData[p] # Null
  /\ gameData[p].status = ACTIVE /\ gameData[p].winner = None
  /\ ~effectiveIsSpectator(p)
  /\ resignGameRun(p, NewCall("resignGame", [playerId |-> playerId[p]]))

resignGame(p) ==
  /\ call[p] # Null /\ call[p].op = "resignGame" /\ call[p].phase = "run"
  /\ resignGameRun(p, call[p])

\* ---------------------------------------------------------- declareWinner

\* declareWinnerUpdate keeping the result of a game that is finished
declareWinnerUpdateFirstWins(data, winner) ==
  IF data.status = FINISHED
  THEN [version |-> data.version + 1]
  ELSE [status |-> FINISHED, winner |-> winner, version |-> data.version + 1]

declareWinnerUpdate(data, winner) ==
  [status |-> FINISHED, winner |-> winner, version |-> data.version + 1]

\* a plain update: no transaction, applied to the stored record at once
declareWinner(p, c) ==
  /\ Written(ApplyUpdate(Stored, declareWinnerUpdate(Stored, c.args.winner)))
  /\ Finished(p, c, None, None)
  /\ UNCHANGED <<playerId, gameData, pendingMove, rematchLoading>>

\* the client's effect 'auto-lose if no moves', from its guards on: it is to
\* move and has none
autoLoseOn(p) ==
  /\ gameData[p] # Null
  /\ ~effectiveIsSpectator(p)
  /\ gameData[p].status = ACTIVE
  /\ isMyTurn(p)
  /\ Len(legalMoves(p)) = 0
  /\ LET winner == IF myColor(p) = WHITE THEN BLACK ELSE WHITE
     IN declareWinner(p, NewCall("declareWinner", [winner |-> winner]))

autoLose(p) == CanCall(p) /\ MayWrite /\ autoLoseOn(p)

\* ---------------------------------------------------------------- rematch

\* proposeRematchTx without the check for a rematch link already set
proposeRematchTxAlwaysNew(data, newGameId) ==
  Attempt(None, [rematchId |-> newGameId], newGameId)

\* one run of proposeRematch's update function; newGameId is the id createGame
\* gives the game it stores when the record has no rematchId yet
proposeRematchTx(data, newGameId) ==
  IF data.rematchId # None
  THEN Attempt(None, Null, data.rematchId)
  ELSE Attempt(None, [rematchId |-> newGameId], newGameId)

\* proposeRematchRun giving the proposer the color they had
proposeRematchRunSameColor(p, c) ==
  /\ \E i \in 1 .. Len(NewIds) : db[NewIds[i]] = Null
  /\ LET newGameId == generateId(db)
         a == proposeRematchTx(Stored, newGameId)
     IN /\ Buffered(p, c, a)
        /\ IF a.update # Null
           THEN db' = [db EXCEPT ![newGameId] =
                         [data |-> createGame(c.args.myPlayerId, c.args.myOldColor,
                                              c.args.isRandom, initializeBoard),
                          updateTime |-> 0]]
           ELSE UNCHANGED db
  /\ UNCHANGED <<playerId, gameData, pendingMove>>

proposeRematchRun(p, c) ==
  /\ \E i \in 1 .. Len(NewIds) : db[NewIds[i]] = Null
  /\ LET newGameId == generateId(db)
         newColor == IF c.args.myOldColor = WHITE THEN BLACK ELSE WHITE
         a == proposeRematchTx(Stored, newGameId)
     IN /\ Buffered(p, c, a)
        /\ IF a.update # Null
           THEN db' = [db EXCEPT ![newGameId] =
                         [data |-> createGame(c.args.myPlayerId, newColor,
                                              c.args.isRandom, initializeBoard),
                          updateTime |-> 0]]
           ELSE UNCHANGED db
  /\ UNCHANGED <<playerId, gameData, pendingMove>>

handleRematch(p) ==
  /\ CanCall(p)
  /\ ~rematchLoading[p]
  /\ gameData[p] # Null
  /\ gameData[p].status \in {FINISHED, DRAW}
  /\ ~effectiveIsSpectator(p)
  /\ gameData[p].rematchId = None
  /\ rematchLoading' = [rematchLoading EXCEPT ![p] = TRUE]
  /\ proposeRematchRun(p, NewCall("proposeRematch",
                                  [myPlayerId |-> playerId[p],
                                   myOldColor |-> myColor(p),
                                   isRandom |-> gameData[p].metadata.isRandomColor]))

proposeRematch(p) ==
  /\ call[p] # Null /\ call[p].op = "proposeRematch" /\ call[p].phase = "run"
  /\ proposeRematchRun(p, call[p])
  /\ UNCHANGED rematchLoading

\* ------------------------------------------------------------- the commit

\* Commit without the precondition on the record's update time
CommitUnconditional(p) ==
  /\ call[p] # Null /\ call[p].phase = "commit"
  /\ MayWrite
  /\ IF call[p].update # Null
     THEN Written(ApplyUpdate(Stored, call[p].update))
     ELSE UNCHANGED <<db>>
  /\ Finished(p, call[p], None, call[p].ret)
  /\ UNCHANGED <<playerId, gameData, pendingMove, rematchLoading>>

\* the commit of a transaction: it goes through when the record is as the
\* update function read it, and otherwise the update function is run again
Commit(p) ==
  /\ call[p] # Null /\ call[p].phase = "commit"
  /\ MayWrite
  /\ IF db[GameId].updateTime = call[p].readTime
     THEN /\ IF call[p].update # Null
             THEN Written(ApplyUpdate(Stored, call[p].update))
             ELSE UNCHANGED <<db>>
          /\ Finished(p, call[p], None, call[p].ret)
     ELSE /\ call' = [call EXCEPT ![p] =
                        [@ EXCEPT !.phase = "run", !.readTime = 0,
                                  !.update = Null, !.ret = None]]
          /\ UNCHANGED <<db, result>>
  /\ UNCHANGED <<playerId, gameData, pendingMove, rematchLoading>>

Next ==
  \E p \in Procs :
    \/ OnSnapshot(p)
    \/ handleJoinGame(p)
    \/ joinGame(p)
    \/ \E click \in Clicks(p) : executeMove(p, click.from, click.to)
    \/ performMove(p)
    \/ handleRequestTakeback(p)
    \/ \E accepted \in BOOLEAN : handleResolveTakeback(p, accepted)
    \/ resolveTakeback(p)
    \/ resignClick(p)
    \/ resignGame(p)
    \/ autoLose(p)
    \/ handleRematch(p)
    \/ proposeRematch(p)
    \/ Commit(p)

Spec == Init /\ [][Next]_vars

\* ------------------------------------------- a client left behind

\* A game in which the player to move has no move, joined by both players:
\* the effect that declares the loss may run on a record that is up to
\* MaxStale - 1 versions behind the stored one.
MaxStale == 2

StaleRecord ==
  LET created == createGame("A", WHITE, FALSE,
                            BoardOf({<<0, 1, WHITE, FALSE>>, <<5, 0, BLACK, FALSE>>}))
  IN ApplyUpdate(created, joinGameTx(created, "B").update)

StaleInit ==
  \E third \in {"B", "C"} :
    /\ db = [g \in GameIds |->
               IF g = GameId THEN [data |-> StaleRecord, updateTime |-> 1] ELSE Null]
    /\ playerId = [p \in Procs |->
                     IF p = "p1" THEN "A" ELSE IF p = "p2" THEN "B" ELSE third]
    /\ gameData = [p \in Procs |-> StaleRecord]
    /\ pendingMove = [p \in Procs |-> FALSE]
    /\ rematchLoading = [p \in Procs |-> FALSE]
    /\ call = [p \in Procs |-> Null]
    /\ result = Null

StaleAutoLose(p) ==
  /\ CanCall(p)
  /\ \A q \in Procs : Stored.version - Seen(q) < MaxStale
  /\ autoLoseOn(p)

StaleNext ==
  \E p \in Procs :
    \/ OnSnapshot(p)
    \/ resignClick(p)
    \/ resignGame(p)
    \/ StaleAutoLose(p)
    \/ Commit(p)

StaleSpec == StaleInit /\ [][StaleNext]_vars

\* ------------------------------------------- late in a game of kings

\* A game close to the half-move ceiling: the moves of the last plies before
\* the ceiling, on a game both players have joined, watched by a second tab
\* of the black player.

\* the least half-move clock such a game starts from
ClockFrom == 58
\* the most the version of such a game may reach
MaxClockVersion == 62

\* the stored record after the move from -> to is committed on data
MoveOnRecord(data, from, to) ==
  LET move == CHOOSE m \in Find(calculateAllowedMoves(JSONparse(data.board), data.turn),
                                from, to) : TRUE
      nextTurn == Other(data.turn)
  IN ApplyUpdate(data,
                 performMoveTx(data, data, move, nextTurn,
                               performMovePre(data, move, nextTurn)).update)

\* the positions two plies before, and the king move of each side that
\* follows: white to move then has
LateGames ==
  { \* a king move or either of two moves of its man
    [board |-> BoardOf({<<6, 1, WHITE, TRUE>>, <<5, 2, WHITE, FALSE>>,
                        <<1, 0, BLACK, TRUE>>, <<1, 2, BLACK, FALSE>>}),
     white |-> [from |-> Pos(6, 1), to |-> Pos(7, 0)],
     black |-> [from |-> Pos(1, 0), to |-> Pos(0, 1)]],
    \* a capture by its king
    [board |-> BoardOf({<<6, 1, WHITE, TRUE>>, <<4, 7, WHITE, FALSE>>,
                        <<1, 0, BLACK, TRUE>>, <<6, 3, BLACK, FALSE>>}),
     white |-> [from |-> Pos(6, 1), to |-> Pos(7, 2)],
     black |-> [from |-> Pos(1, 0), to |-> Pos(0, 1)]] }

\* the record of the game g with the half-move clock at h
LateRecord(g, h) ==
  MoveOnRecord(
    MoveOnRecord([createGame("A", WHITE, FALSE, g.board) EXCEPT
                    !.players.black = "B", !.status = ACTIVE,
                    !.version = h - 1, !.halfMoveClock = h - 2],
                 g.white.from, g.white.to),
    g.black.from, g.black.to)

ClockInit ==
  \E g \in LateGames, h \in ClockFrom .. (DrawCeiling - 1) :
    /\ db = [id \in GameIds |->
               IF id = GameId THEN [data |-> LateRecord(g, h), updateTime |-> h + 1]
               ELSE Null]
    /\ playerId = [p \in Procs |-> IF p = "p1" THEN "A" ELSE "B"]
    /\ gameData = [p \in Procs |-> LateRecord(g, h)]
    /\ pendingMove = [p \in Procs |-> FALSE]
    /\ rematchLoading = [p \in Procs |-> FALSE]
    /\ call = [p \in Procs |-> Null]
    /\ result = Null

ClockCanCall(p) ==
  /\ call[p] = Null
  /\ Cardinality(Inflight) < MaxInflight
  /\ Stored.version + Cardinality(Inflight) < MaxClockVersion

ClockExecuteMove(p, from, to) == ClockCanCall(p) /\ executeMoveOn(p, from, to)

ClockNext ==
  \E p \in Procs :
    \/ OnSnapshot(p)
    \/ \E click \in Clicks(p) : ClockExecuteMove(p, click.from, click.to)
    \/ performMove(p)
    \/ Commit(p)

ClockSpec == ClockInit /\ [][ClockNext]_vars

\* ------------------------------------------- a game about to end

\* A game both players have joined and played two moves of, in which the
\* side to move has a move that ends it; the players move, ask for takebacks
\* and answer them.

\* the most the version of such a game may reach
MaxEndVersion == 6

\* the boards such a game started on, and the first move of each side
EndGames ==
  { \* white then captures the last black man
    [board |-> BoardOf({<<5, 0, WHITE, FALSE>>, <<2, 3, BLACK, FALSE>>}),
     white |-> [from |-> Pos(5, 0), to |-> Pos(4, 1)],
     black |-> [from |-> Pos(2, 3), to |-> Pos(3, 2)]],
    \* the white king then captures the black man: one king each remains
    [board |-> BoardOf({<<7, 2, WHITE, TRUE>>, <<1, 4, BLACK, FALSE>>,
                        <<0, 1, BLACK, TRUE>>}),
     white |-> [from |-> Pos(7, 2), to |-> Pos(6, 1)],
     black |-> [from |-> Pos(1, 4), to |-> Pos(2, 5)]] }

\* the record of the game g after its two moves
EndRecord(g) ==
  MoveOnRecord(
    MoveOnRecord([createGame("A", WHITE, FALSE, g.board) EXCEPT
                    !.players.black = "B", !.status = ACTIVE, !.version = 1],
                 g.white.from, g.white.to),
    g.black.from, g.black.to)

EndInit ==
  \E g \in EndGames :
    /\ db = [id \in GameIds |->
               IF id = GameId THEN [data |-> EndRecord(g), updateTime |-> 3]
               ELSE Null]
    /\ playerId = [p \in Procs |-> IF p = "p1" THEN "A" ELSE "B"]
    /\ gameData = [p \in Procs |-> EndRecord(g)]
    /\ pendingMove = [p \in Procs |-> FALSE]
    /\ rematchLoading = [p \in Procs |-> FALSE]
    /\ call = [p \in Procs |-> Null]
    /\ result = Null

EndCanCall(p) ==
  /\ call[p] = Null
  /\ Cardinality(Inflight) < MaxInflight
  /\ Stored.version + Cardinality(Inflight) < MaxEndVersion

EndExecuteMove(p, from, to) == EndCanCall(p) /\ executeMoveOn(p, from, to)

EndRequestTakeback(p) == EndCanCall(p) /\ handleRequestTakebackOn(p)

EndResolveTakeback(p, accepted) ==
  EndCanCall(p) /\ handleResolveTakebackOn(p, accepted)

EndNext ==
  \E p \in Procs :
    \/ OnSnapshot(p)
    \/ \E click \in Clicks(p) : EndExecuteMove(p, click.from, click.to)
    \/ performMove(p)
    \/ EndRequestTakeback(p)
    \/ \E accepted \in BOOLEAN : EndResolveTakeback(p, accepted)
    \/ resolveTakeback(p)
    \/ Commit(p)

EndSpec == EndInit /\ [][EndNext]_vars

\* The same game with what the program does by itself done in the end: a
\* snapshot of a record a client does not hold is delivered, an update
\* function that is to run runs, and a transaction that is to commit commits
\* or is sent back to run again. Nothing makes a player click.
EndFairness ==
  \A p \in Procs :
    /\ WF_vars(OnSnapshot(p))
    /\ WF_vars(performMove(p))
    /\ WF_vars(resolveTakeback(p))
    /\ WF_vars(Commit(p))

EndLiveSpec == EndSpec /\ EndFairness

\* ------------------------------------------------- the rules on their own

\* Games played move by move on boards set up in the editor: each step is one
\* legal move of the side to move, committed on the stored record with no
\* other client in the way.

\* the most moves played on from a position
MaxPlies == 3

\* the boards of the editor: white is to move and has
EditorBoards ==
  { \* a chain of two captures, and nothing else
    BoardOf({<<5, 4, WHITE, FALSE>>, <<4, 3, BLACK, FALSE>>, <<2, 1, BLACK, FALSE>>}),
    \* a capture by one man and simple moves of another
    BoardOf({<<5, 4, WHITE, FALSE>>, <<7, 0, WHITE, FALSE>>,
             <<4, 3, BLACK, FALSE>>, <<1, 6, BLACK, FALSE>>}),
    \* a chain round four men that comes back to the square it left
    BoardOf({<<5, 2, WHITE, FALSE>>, <<4, 3, BLACK, FALSE>>, <<2, 3, BLACK, FALSE>>,
             <<2, 1, BLACK, FALSE>>, <<4, 1, BLACK, FALSE>>, <<0, 7, BLACK, FALSE>>}),
    \* a chain of a king that ends on a diagonal through the square it left
    BoardOf({<<3, 2, WHITE, TRUE>>, <<2, 3, BLACK, FALSE>>, <<2, 5, BLACK, FALSE>>,
             <<4, 5, BLACK, FALSE>>, <<2, 1, BLACK, FALSE>>}),
    \* a man that is crowned in the middle of a chain
    BoardOf({<<2, 5, WHITE, FALSE>>, <<1, 4, BLACK, FALSE>>, <<2, 1, BLACK, FALSE>>,
             <<5, 6, BLACK, FALSE>>}),
    \* men one step from the last row, and a king that can slide to it
    BoardOf({<<1, 2, WHITE, FALSE>>, <<6, 5, BLACK, FALSE>>, <<5, 0, BLACK, TRUE>>}),
    \* a king behind a man of its own
    BoardOf({<<7, 0, WHITE, TRUE>>, <<5, 2, WHITE, FALSE>>, <<2, 5, BLACK, TRUE>>,
             <<1, 2, BLACK, FALSE>>}) }

\* the record of a game of "A" (white) and "B" on the board
StartedRecord(board) ==
  [createGame("A", WHITE, FALSE, board) EXCEPT
     !.players.black = "B", !.status = ACTIVE, !.version = 1]

\* the game of the record data, loaded by every client
RulesInitAt(data) ==
  /\ db = [id \in GameIds |->
             IF id = GameId THEN [data |-> data, updateTime |-> 1] ELSE Null]
  /\ playerId = [p \in Procs |-> IF p = "p1" THEN "A" ELSE "B"]
  /\ gameData = [p \in Procs |-> data]
  /\ pendingMove = [p \in Procs |-> FALSE]
  /\ rematchLoading = [p \in Procs |-> FALSE]
  /\ call = [p \in Procs |-> Null]
  /\ result = Null

RulesInit == \E board \in EditorBoards : RulesInitAt(StartedRecord(board))

\* the legal moves of the side to move on the stored board
StoredMoves ==
  IF Stored.status # ACTIVE THEN <<>>
  ELSE calculateAllowedMoves(JSONparse(Stored.board), Stored.turn)

\* one move played and committed, every client seeing it
PlayMove(from, to) ==
  /\ Stored.status = ACTIVE
  /\ db[GameId].updateTime <= MaxPlies
  /\ \E next \in {MoveOnRecord(Stored, from, to)} :
       /\ db' = [db EXCEPT ![GameId] = [data |-> next, updateTime |-> @.updateTime + 1]]
       /\ gameData' = [p \in Procs |-> next]
  /\ UNCHANGED <<playerId, pendingMove, rematchLoading, call, result>>

RulesNext == \E click \in FromTo(StoredMoves) : PlayMove(click.from, click.to)

RulesSpec == RulesInit /\ [][RulesNext]_vars

\* ---- from the initial board

\* Games played on from the positions of one game that starts on the initial
\* board and has a white man crowned at its thirteenth move.

OpeningLine ==
  << [from |-> Pos(5, 0), to |-> Pos(4, 1)], [from |-> Pos(2, 3), to |-> Pos(3, 2)],
     [from |-> Pos(4, 1), to |-> Pos(2, 3)], [from |-> Pos(1, 4), to |-> Pos(3, 2)],
     [from |-> Pos(5, 2), to |-> Pos(4, 3)], [from |-> Pos(0, 5), to |-> Pos(1, 4)],
     [from |-> Pos(5, 6), to |-> Pos(4, 5)], [from |-> Pos(1, 2), to |-> Pos(2, 3)],
     [from |-> Pos(6, 5), to |-> Pos(5, 6)], [from |-> Pos(0, 3), to |-> Pos(1, 2)],
     [from |-> Pos(6, 3), to |-> Pos(5, 2)], [from |-> Pos(2, 3), to |-> Pos(3, 4)],
     [from |-> Pos(4, 5), to |-> Pos(0, 5)] >>

\* the record of the game after the first k moves of the line
RECURSIVE Played(_, _)
Played(line, k) ==
  IF k = 0 THEN StartedRecord(initializeBoard)
  ELSE MoveOnRecord(Played(line, k - 1), line[k].from, line[k].to)

OpeningInit == \E k \in 0 .. Len(OpeningLine) : RulesInitAt(Played(OpeningLine, k))

OpeningSpec == OpeningInit /\ [][RulesNext]_vars

\* ---- the bot on its own

\* getSmartBotMove asked once for a move of either color on a board, with the
\* shuffle leaving the moves in any order and the time limit passed after any
\* number of clock reads up to MaxReads, or not at all.

\* the most clock reads before which the time limit is passed
MaxReads == 3

Deadlines ==
  {[expires |-> FALSE, after |-> 0]}
  \cup {[expires |-> TRUE, after |-> n] : n \in 0 .. MaxReads}

\* the boards the bot is asked about
BotBoards ==
  { \* white has no move and black has one
    BoardOf({<<0, 1, WHITE, FALSE>>, <<5, 0, BLACK, FALSE>>}),
    \* one capture for either side, a chain of two for white
    BoardOf({<<5, 4, WHITE, FALSE>>, <<4, 3, BLACK, FALSE>>, <<2, 1, BLACK, FALSE>>}),
    \* three simple moves for either side
    BoardOf({<<5, 0, WHITE, FALSE>>, <<5, 4, WHITE, FALSE>>,
             <<2, 3, BLACK, FALSE>>, <<2, 7, BLACK, FALSE>>}),
    \* two captures for either side, and men that could step
    BoardOf({<<3, 2, WHITE, FALSE>>, <<3, 4, WHITE, FALSE>>, <<7, 0, WHITE, FALSE>>,
             <<2, 3, BLACK, FALSE>>, <<0, 7, BLACK, FALSE>>}),
    \* a chain of two captures and a single capture for white, two captures
    \* for black
    BoardOf({<<5, 4, WHITE, FALSE>>, <<4, 3, BLACK, FALSE>>, <<2, 1, BLACK, FALSE>>,
             <<4, 5, BLACK, FALSE>>}),
    \* a king in the corner behind a man of its own, and men about to meet
    BoardOf({<<7, 0, WHITE, TRUE>>, <<6, 1, WHITE, FALSE>>, <<6, 5, WHITE, FALSE>>,
             <<4, 3, BLACK, FALSE>>, <<0, 1, BLACK, TRUE>>, <<1, 2, BLACK, FALSE>>}) }

BotInit ==
  /\ db = [id \in GameIds |-> Null]
  /\ playerId = [p \in Procs |-> "A"]
  /\ gameData = [p \in Procs |-> Null]
  /\ pendingMove = [p \in Procs |-> FALSE]
  /\ rematchLoading = [p \in Procs |-> FALSE]
  /\ call = [p \in Procs |-> Null]
  /\ result = Null

\* getSmartBotMove(board, botColor), called once
AskBot ==
  /\ result = Null
  /\ \E board \in BotBoards, botColor \in {WHITE, BLACK}, deadline \in Deadlines :
       \E order \in Orders(Len(calculateAllowedMoves(board, botColor))) :
         \E answer \in {getSmartBotMove(board, botColor, order, deadline)} :
           result' = [proc |-> "p1", op |-> "getSmartBotMove", board |-> board,
                      botColor |-> botColor, deadline |-> deadline,
                      move |-> answer.move, reads |-> answer.reads,
                      plies |-> answer.plies]
  /\ UNCHANGED <<db, playerId, gameData, pendingMove, rematchLoading, call>>

BotNext == AskBot

BotSpec == BotInit /\ [][BotNext]_vars

\* ---- the search on its own

\* minimax, quiescence and evaluateBoard each applied once: to a board, at any
\* depth from 0 to MAX_DEPTH, for either side to move and either color of the
\* bot, over the whole window, with the time limit passed after any number of
\* clock reads up to MaxReads, or not at all; or getSmartBotMove asked once.

\* the boards the search is asked about: those of the bot, and boards on which
\* a side has no move
SearchBoards ==
  BotBoards
  \cup { \* the white man is shut in by two black men
         BoardOf({<<7, 0, WHITE, FALSE>>, <<6, 1, BLACK, FALSE>>,
                  <<5, 2, BLACK, FALSE>>}),
         \* black has no piece left
         BoardOf({<<5, 0, WHITE, FALSE>>, <<3, 4, WHITE, TRUE>>}),
         \* white has no piece left
         BoardOf({<<2, 3, BLACK, FALSE>>, <<6, 1, BLACK, FALSE>>}) }

\* the boards evaluateBoard is asked about
EvalBoards ==
  SearchBoards \cup EditorBoards
  \cup {initializeBoard}

\* minimax(board, depth, -INFINITY, INFINITY, isMaximizing, botColor), called
\* once
AskMinimax ==
  /\ result = Null
  /\ \E board \in SearchBoards, depth \in 0 .. MAX_DEPTH, isMaximizing \in BOOLEAN,
        botColor \in {WHITE, BLACK}, deadline \in Deadlines :
       \E answer \in {minimax(board, depth, 0 - INFINITY, INFINITY, isMaximizing,
                               botColor, 0, deadline)} :
         result' = [proc |-> "p1", op |-> "minimax", board |-> board,
                    depth |-> depth, isMaximizing |-> isMaximizing,
                    botColor |-> botColor, deadline |-> deadline,
                    value |-> answer.value, reads |-> answer.now,
                    plies |-> answer.plies]
  /\ UNCHANGED <<db, playerId, gameData, pendingMove, rematchLoading, call>>

\* quiescence(board, -INFINITY, INFINITY, isMaximizing, botColor, qDepth),
\* called once
AskQuiescence ==
  /\ result = Null
  /\ \E board \in SearchBoards, qDepth \in 0 .. MAX_Q_DEPTH, isMaximizing \in BOOLEAN,
        botColor \in {WHITE, BLACK}, deadline \in Deadlines :
       \E answer \in {quiescence(board, 0 - INFINITY, INFINITY, isMaximizing,
                                  botColor, qDepth, 0, deadline)} :
         result' = [proc |-> "p1", op |-> "quiescence", board |-> board,
                    depth |-> qDepth, isMaximizing |-> isMaximizing,
                    botColor |-> botColor, deadline |-> deadline,
                    value |-> answer.value, reads |-> answer.now,
                    plies |-> answer.plies]
  /\ UNCHANGED <<db, playerId, gameData, pendingMove, rematchLoading, call>>

\* evaluateBoard(board, color), called once
AskEvaluate ==
  /\ result = Null
  /\ \E board \in EvalBoards, color \in {WHITE, BLACK} :
       result' = [proc |-> "p1", op |-> "evaluateBoard", board |-> board,
                  color |-> color, value |-> evaluateBoard(board, color)]
  /\ UNCHANGED <<db, playerId, gameData, pendingMove, rematchLoading, call>>

SearchNext == AskMinimax \/ AskQuiescence \/ AskEvaluate \/ AskBot

SearchSpec == BotInit /\ [][SearchNext]_vars

\* ------------------------------------------------------------ properties

\* this step is a run of the update function of the call op of the client p:
\* a later run, or the first one, which buffers the call or ends it at once
Ran(p, op) ==
  \/ /\ call[p] # Null /\ call[p].phase = "run" /\ call[p].op = op
     /\ call'[p] # call[p]
  \/ /\ call[p] = Null /\ call'[p] # Null /\ call'[p].op = op
  \/ /\ call[p] = Null /\ call'[p] = Null
     /\ result' # result /\ result'.proc = p /\ result'.op = op

\* the version the performMove call run in this step by p expects
RanExpected(p) ==
  IF call[p] # Null THEN ExpectedVersion(call[p])
  ELSE IF call'[p] # Null THEN ExpectedVersion(call'[p])
  ELSE result'.expected

\* the call of p ends in this step with the error
Throws(p, op, expected, error) ==
  /\ call'[p] = Null
  /\ result' = [proc |-> p, op |-> op, expected |-> expected,
                error |-> error, ret |-> None]

\* C1: a performMove whose expected version is not the version of the stored
\* record fails with the version conflict error and leaves every stored
\* record as it is; no step of such a call, its commit included, writes.
C1_StaleMoveRejected ==
  [][\A p \in Procs :
       /\ (Ran(p, "performMove") /\ RanExpected(p) # Stored.version)
            => (Throws(p, "performMove", RanExpected(p), VersionConflict) /\ db' = db)
       /\ (/\ call[p] # Null /\ call[p].op = "performMove"
           /\ call'[p] # call[p]
           /\ ExpectedVersion(call[p]) # Stored.version)
            => db' = db]_vars

\* a performMove has just failed on a version conflict: the stored version is
\* not the one it expected
C1_Witness ==
  /\ result # Null
  /\ result.op = "performMove"
  /\ result.error = VersionConflict
  /\ result.expected # Stored.version

\* the client has a performMove in flight that expects the version e
MoveInFlight(p, e) ==
  call[p] # Null /\ call[p].op = "performMove" /\ ExpectedVersion(call[p]) = e

\* the call that ended last is the performMove of p expecting e, committed
MoveWon(p, e) ==
  result = [proc |-> p, op |-> "performMove", expected |-> e,
            error |-> None, ret |-> None]

\* C2: of two performMove calls in flight that expect the same version, the
\* one that ends first either commits, from the expected version to the next
\* with the board of its own move and without ending the other, or has lost
\* to a write already made; once one has committed the other writes nothing
\* and ends on the version conflict error, so the stored board is the
\* winner's move only, and a call fails only when the version has moved.
C2_OneMoveWins ==
  [][\A p, q \in Procs : \A e \in 0 .. MaxVersion :
       (p # q /\ MoveInFlight(q, e)) =>
         /\ (MoveInFlight(p, e) /\ call'[p] = Null) =>
              IF result'.error = None
              THEN /\ Stored.version = e
                   /\ Stored'.version = e + 1
                   /\ Stored'.board = call[p].args.pre.board
                   /\ call'[q] = call[q]
              ELSE /\ result'.error = VersionConflict
                   /\ Stored.version # e
                   /\ db' = db
         /\ (MoveWon(p, e) /\ call'[q] # call[q]) =>
              /\ db' = db
              /\ Stored.version = e + 1
              /\ call[q].phase = "run" => call'[q] = Null
              /\ call'[q] = Null =>
                   result' = [proc |-> q, op |-> "performMove", expected |-> e,
                              error |-> VersionConflict, ret |-> None]]_vars

\* two moves raced on one version: one has committed, and the commit of the
\* other, buffered before that, has failed and awaits its second run
C2_Witness ==
  \E p, q \in Procs :
    /\ p # q
    /\ MoveWon(p, Stored.version - 1)
    /\ MoveInFlight(q, Stored.version - 1)
    /\ call[q].phase = "run"

\* the call op of the client p ends in this step without an error
Resolves(p, op) ==
  \/ /\ call[p] # Null /\ call[p].op = op /\ call'[p] = Null
     /\ result'.error = None
  \/ /\ call[p] = Null /\ call'[p] = Null
     /\ result' # result /\ result'.proc = p /\ result'.op = op
     /\ result'.error = None

\* C3: a game is stored with version 0, the version of a stored game never
\* decreases, and every step that writes anything of the game but its
\* rematch link adds exactly 1 to it; so does every performMove,
\* resolveTakeback, resignGame and declareWinner that resolves and every
\* joinGame that seats its player.
C3_VersionCounts ==
  /\ Stored.version = 0
  /\ [][/\ \A g \in GameIds :
           IF db[g] = Null
           THEN db'[g] # Null => db'[g].data.version = 0
           ELSE db'[g] # Null /\ db'[g].data.version >= db[g].data.version
        /\ [Stored' EXCEPT !.rematchId = None] # [Stored EXCEPT !.rematchId = None]
             => Stored'.version = Stored.version + 1
        /\ Stored'.version \in {Stored.version, Stored.version + 1}
        /\ \A p \in Procs :
             /\ \A op \in {"performMove", "resolveTakeback", "resignGame",
                            "declareWinner"} :
                  Resolves(p, op) => Stored'.version = Stored.version + 1
             /\ (Resolves(p, "joinGame") /\ Stored'.players # Stored.players)
                  => Stored'.version = Stored.version + 1]_vars

\* a takeback has been resolved on a game joined, moved in and asked to take
\* the move back: four writes, version 4 or more
C3_Witness ==
  /\ result # Null
  /\ result.op = "resolveTakeback"
  /\ result.error = None
  /\ Stored.version >= 4

JoinInFlight(p) == call[p] # Null /\ call[p].op = "joinGame"

\* the player of the client holds a slot of the stored game
Seated(p) ==
  Stored.players.white = playerId[p] \/ Stored.players.black = playerId[p]

\* the call that ended last is the joinGame of p, resolved
JoinWon(p) ==
  result = [proc |-> p, op |-> "joinGame", expected |-> 0,
            error |-> None, ret |-> None]

\* C4: of two joinGame calls in flight for two players not in the game, the
\* one that ends first either takes the one empty slot of the waiting game,
\* which becomes active with its version one higher while the other slot and
\* the other call stay as they are, or finds the game full and writes
\* nothing; once one is seated the other writes nothing and ends on the
\* game-full error, so the seat is given once and never overwritten.
C4_OneJoinWins ==
  [][\A p, q \in Procs :
       (/\ p # q /\ playerId[p] # playerId[q]
        /\ JoinInFlight(q) /\ ~Seated(q)) =>
         /\ (JoinInFlight(p) /\ ~Seated(p) /\ call'[p] = Null) =>
              IF result'.error = None
              THEN /\ Stored.status = WAITING
                   /\ (Stored.players.white = None) # (Stored.players.black = None)
                   /\ Stored' =
                        [Stored EXCEPT
                           !.status = ACTIVE,
                           !.version = @ + 1,
                           !.players =
                             IF Stored.players.white = None
                             THEN [@ EXCEPT !.white = playerId[p]]
                             ELSE [@ EXCEPT !.black = playerId[p]]]
                   /\ call'[q] = call[q]
              ELSE /\ result'.error = GameFull
                   /\ Stored.players.white # None /\ Stored.players.black # None
                   /\ db' = db
         /\ (JoinWon(p) /\ Seated(p) /\ call'[q] # call[q]) =>
              /\ db' = db
              /\ call[q].phase = "run" => call'[q] = Null
              /\ call'[q] = Null =>
                   result' = [proc |-> q, op |-> "joinGame", expected |-> 0,
                              error |-> GameFull, ret |-> None]]_vars

\* two players raced for the seat: one holds it, and the commit of the other,
\* buffered while the seat was empty, has failed and awaits its second run
C4_Witness ==
  \E p, q \in Procs :
    /\ p # q /\ playerId[p] # playerId[q]
    /\ JoinWon(p) /\ Seated(p)
    /\ JoinInFlight(q) /\ ~Seated(q)
    /\ call[q].phase = "run"
    /\ Stored.status = ACTIVE /\ Stored.version = 1

\* the board, the turn, the half-move clock and the last move of a record
Frame(data) ==
  [board |-> data.board, turn |-> data.turn,
   halfMoveClock |-> data.halfMoveClock, lastMove |-> data.lastMove]

\* the commit of the call op of the client goes through in this step
Commits(p, op) ==
  /\ call[p] # Null /\ call[p].op = op /\ call[p].phase = "commit"
  /\ call'[p] = Null

\* the record after resolveTakeback(true) on it
TakenBack(data) == ApplyUpdate(data, resolveTakebackTx(data, TRUE).update)

\* C5: an accepted resolveTakeback that goes through on a record with a
\* previous state sets the board, the turn, the half-move clock and the last
\* move to those of it, clears it and the takeback request, adds 1 to the
\* version and changes nothing else; and straight after a move is committed,
\* an accepted takeback gives back the board, the turn, the half-move clock
\* and the last move the record held before that move.
C5_TakebackRestores ==
  [][\A p \in Procs :
       /\ (/\ Commits(p, "resolveTakeback") /\ call[p].args.accepted
           /\ Stored.previousState # Null) =>
             Stored' = [Stored EXCEPT
                          !.board = Stored.previousState.board,
                          !.turn = Stored.previousState.turn,
                          !.halfMoveClock = Stored.previousState.halfMoveClock,
                          !.lastMove = Stored.previousState.lastMove,
                          !.previousState = Null,
                          !.takebackRequest = Null,
                          !.version = @ + 1]
       /\ Commits(p, "performMove") =>
             /\ Stored'.previousState # Null
             /\ Frame(TakenBack(Stored')) = Frame(Stored)
             /\ TakenBack(Stored').previousState = Null]_vars

\* an accepted takeback has just gone through: the board is not the one the
\* move left, nothing is left to take back
C5_Witness ==
  /\ result # Null
  /\ result.op = "resolveTakeback"
  /\ result.error = None
  /\ Stored.previousState = Null
  /\ Stored.takebackRequest = Null
  /\ Stored.lastMove = Null
  /\ Stored.version = 4

\* C6: the commit of a move sets the previous state to the board, the turn,
\* the half-move clock and the last move the stored record holds at that
\* commit; no other step sets a previous state, and no other step changes
\* any of the four without leaving the previous state empty. So a previous
\* state, when present, is the state right before the last committed move,
\* which made the current board.
C6_PreviousStateIsLastMove ==
  [][/\ \A p \in Procs :
          Commits(p, "performMove") => Stored'.previousState = Frame(Stored)
     /\ (\/ Stored'.previousState # Stored.previousState
         \/ Frame(Stored') # Frame(Stored))
          => \/ Stored'.previousState = Null
             \/ \E p \in Procs : Commits(p, "performMove")]_vars

\* a second move has just been committed: the previous state is the one the
\* first move left, not the one before it
C6_Witness ==
  /\ result # Null
  /\ result.op = "performMove"
  /\ result.error = None
  /\ Stored.previousState # Null
  /\ Stored.previousState.lastMove # Null
  /\ Stored.previousState.board # Stored.board

\* the stored games other than the game under study
Successors == {g \in GameIds \ {GameId} : db[g] # Null}

\* C7: a rematch link, once set, never changes; every proposeRematch call
\* that ends, ends without an error and returns the link the record holds
\* at that moment, which is the id of a stored game; so all calls on the
\* record return the same successor.
C7_RematchConverges ==
  [][/\ Stored.rematchId # None => Stored'.rematchId = Stored.rematchId
     /\ \A p \in Procs :
          (call[p] # Null /\ call[p].op = "proposeRematch" /\ call'[p] = Null) =>
            /\ result' = [proc |-> p, op |-> "proposeRematch", expected |-> 0,
                          error |-> None, ret |-> Stored'.rematchId]
            /\ Stored'.rematchId \in Successors']_vars

\* two proposals raced: both created a successor game, and the call that
\* ended last returned the stored link
C7_Witness ==
  /\ result # Null
  /\ result.op = "proposeRematch"
  /\ result.ret = Stored.rematchId
  /\ Cardinality(Successors) >= 2
  /\ \A p \in Procs : call[p] = Null \/ call[p].op # "proposeRematch"

\* C8: the status of the game moves only from WAITING to ACTIVE and from
\* ACTIVE to FINISHED or DRAW: a FINISHED or DRAW game keeps its status, a
\* WAITING game does not become FINISHED or DRAW in one step, and an ACTIVE
\* game does not return to WAITING.
C8_StatusOneWay ==
  [][/\ Stored.status \in {FINISHED, DRAW} => Stored'.status = Stored.status
     /\ Stored.status = WAITING => Stored'.status \in {WAITING, ACTIVE}
     /\ Stored.status = ACTIVE => Stored'.status # WAITING]_vars

\* the stored games
StoredGames == {g \in GameIds : db[g] # Null}

\* C9: the two slots of a stored game never hold the same player id; a
\* filled slot keeps its player in every step; and the slots of the game
\* change only at the commit of a joinGame, which writes the id of the
\* joining player into one empty slot.
C9_SlotsKept ==
  /\ [](\A g \in StoredGames :
          db[g].data.players.white = None
            \/ db[g].data.players.white # db[g].data.players.black)
  /\ [][/\ \A g \in StoredGames : \A slot \in {"white", "black"} :
             db[g].data.players[slot] # None =>
               db'[g].data.players[slot] = db[g].data.players[slot]
        /\ Stored'.players # Stored.players =>
             \E p \in Procs : \E slot \in {"white", "black"} :
               /\ Commits(p, "joinGame")
               /\ Stored.players[slot] = None
               /\ Stored'.players = [Stored.players EXCEPT ![slot] = playerId[p]]]_vars

\* both slots are held and a third player has just been refused
C9_Witness ==
  /\ result # Null
  /\ result.op = "joinGame"
  /\ result.error = GameFull
  /\ Stored.players.white # None
  /\ Stored.players.black # None
  /\ Stored.players.white # Stored.players.black
  /\ \A p \in Procs : call[p] = Null

\* C10: when a resolveTakeback commits after the resolveTakeback of another
\* client has cleared the takeback request, it changes neither the board,
\* the turn, the half-move clock, the last move nor the previous state.
C10_SecondResolveNoOp ==
  [][\A p \in Procs :
       (/\ Commits(p, "resolveTakeback")
        /\ result # Null /\ result.op = "resolveTakeback" /\ result.proc # p
        /\ Stored.takebackRequest = Null) =>
         /\ Frame(Stored') = Frame(Stored)
         /\ Stored'.previousState = Stored.previousState]_vars

\* an accepted resolveTakeback of the client goes through in this step on a
\* record with no previous state: an accepted takeback has cleared it and no
\* move has been committed since
SecondAccept(p) ==
  /\ Commits(p, "resolveTakeback")
  /\ call[p].args.accepted
  /\ Stored.previousState = Null

\* C11 as stated: an accepted resolveTakeback after an accepted takeback,
\* with no move in between, leaves the stored record unchanged.
C11_SecondAcceptUnchanged ==
  [][\A p \in Procs : SecondAccept(p) => Stored' = Stored]_vars

\* C11, amended: an accepted resolveTakeback after an accepted takeback, with
\* no move in between, reverts nothing further: it leaves the record as it
\* is but for the takeback request, which it clears, and the version, to
\* which it adds 1.
C11_SecondAcceptRevertsNothing ==
  [][\A p \in Procs :
       SecondAccept(p) =>
         /\ Stored' # Stored
         /\ [Stored' EXCEPT !.version = 0, !.takebackRequest = Null]
              = [Stored EXCEPT !.version = 0, !.takebackRequest = Null]
         /\ Stored'.takebackRequest = Null
         /\ Stored'.version = Stored.version + 1]_vars

\* the accept of another client has gone through and cleared the previous
\* state; a second accept has run on that record and awaits its commit
C11_Witness ==
  \E p \in Procs :
    /\ call[p] # Null /\ call[p].op = "resolveTakeback" /\ call[p].args.accepted
    /\ call[p].phase = "commit"
    /\ call[p].readTime = db[GameId].updateTime
    /\ result # Null /\ result.op = "resolveTakeback" /\ result.proc # p
    /\ Stored.previousState = Null
    /\ Stored.takebackRequest = Null

\* C12: every step that changes any field of the stored game record also
\* strictly raises its version, the rematchId write of proposeRematch
\* included, so that two different stored states never carry one version.
C12_EveryWriteRaisesVersion ==
  [][Stored' # Stored => Stored'.version > Stored.version]_vars

\* C13: straight after any move that is committed the stored record has no
\* takeback request, whoever had asked; and a step that leaves a request
\* pending has changed neither the board, the turn, the half-move clock nor
\* the last move, so that a pending request is never one made before the
\* last move.
C13_MoveVoidsRequest ==
  [][/\ \A p \in Procs :
          Commits(p, "performMove") => Stored'.takebackRequest = Null
     /\ Stored'.takebackRequest # Null => Frame(Stored') = Frame(Stored)]_vars

\* a move has run on a record with a pending takeback request and awaits
\* its commit, which will go through
C13_Witness ==
  \E p \in Procs :
    /\ call[p] # Null /\ call[p].op = "performMove" /\ call[p].phase = "commit"
    /\ call[p].readTime = db[GameId].updateTime
    /\ Stored.takebackRequest # Null

\* C14: a resolveTakeback that goes through rejecting, or accepting on a
\* record with no previous state, clears the takeback request and adds 1 to
\* the version; the board, the turn, the half-move clock, the last move, the
\* previous state, the status, the winner and the players stay as they are.
C14_RejectOnlyClears ==
  [][\A p \in Procs :
       (/\ Commits(p, "resolveTakeback")
        /\ (~call[p].args.accepted \/ Stored.previousState = Null)) =>
         /\ Stored'.takebackRequest = Null
         /\ Stored'.version = Stored.version + 1
         /\ Stored'.board = Stored.board
         /\ Stored'.turn = Stored.turn
         /\ Stored'.halfMoveClock = Stored.halfMoveClock
         /\ Stored'.lastMove = Stored.lastMove
         /\ Stored'.previousState = Stored.previousState
         /\ Stored'.status = Stored.status
         /\ Stored'.winner = Stored.winner
         /\ Stored'.players = Stored.players]_vars

\* a reject has gone through: the request is cleared and the previous state
\* of the last move is still there
C14_Witness ==
  /\ result # Null /\ result.op = "resolveTakeback" /\ result.error = None
  /\ Stored.takebackRequest = Null
  /\ Stored.previousState # Null
  /\ Stored.lastMove # Null

\* the update of requestTakeback is applied in this step
Requests == call' = call /\ db' # db /\ result'.op = "requestTakeback"

\* the player whose turn it is on the record
ToMove(data) == IF data.turn = WHITE THEN data.players.white ELSE data.players.black

\* C15: requestTakeback only proposes: whoever asks and whoever is to move,
\* it sets the takeback request to the id of the requester and leaves the
\* board, the turn, the half-move clock, the last move, the previous state,
\* the status, the winner and the players as they are.
C15_RequestOnlyProposes ==
  [][Requests =>
       /\ Stored'.takebackRequest = [requesterId |-> playerId[result'.proc]]
       /\ Stored'.board = Stored.board
       /\ Stored'.turn = Stored.turn
       /\ Stored'.halfMoveClock = Stored.halfMoveClock
       /\ Stored'.lastMove = Stored.lastMove
       /\ Stored'.previousState = Stored.previousState
       /\ Stored'.status = Stored.status
       /\ Stored'.winner = Stored.winner
       /\ Stored'.players = Stored.players]_vars

\* the player to move has asked for a takeback, of the move of the other
\* side: the request is stored and the turn is still theirs
C15_Witness ==
  /\ result # Null /\ result.op = "requestTakeback"
  /\ Stored.takebackRequest # Null
  /\ Stored.takebackRequest.requesterId = ToMove(Stored)
  /\ Stored.takebackRequest.requesterId = playerId[result.proc]

\* the ids of the players, of the clients and of none of them
PlayerIds == {"A", "B", "C"}

\* pid holds neither slot of the record
Stranger(data, pid) == data.players.white # pid /\ data.players.black # pid

\* C16: a resignGame of the player in a slot that goes through sets the
\* status to FINISHED and the winner to the other color and adds 1 to the
\* version; the update function of resignGame run for an id in neither slot
\* buffers no write, and a transaction with no write buffered leaves the
\* whole record, the version included, as it is.
C16_ResignAwardsOther ==
  /\ [](\A pid \in PlayerIds :
          Stranger(Stored, pid) => resignGameTx(Stored, pid) = Attempt(None, Null, None))
  /\ [][\A p \in Procs :
          /\ (/\ call[p] # Null /\ call[p].phase = "commit" /\ call[p].update = Null
              /\ call'[p] # call[p]) => db' = db
          /\ (Commits(p, "resignGame") /\ ~Stranger(Stored, call[p].args.playerId)) =>
               /\ Stored'.status = FINISHED
               /\ Stored'.winner = IF Stored.players.white = call[p].args.playerId
                                   THEN BLACK ELSE WHITE
               /\ Stored'.version = Stored.version + 1]_vars

\* the resignation of a player has gone through, the other color has won,
\* and a third client watches whose id holds neither slot
C16_Witness ==
  /\ result # Null /\ result.op = "resignGame" /\ result.error = None
  /\ Stored.status = FINISHED
  /\ Stored.winner = IF Stored.players.white = playerId[result.proc]
                     THEN BLACK ELSE WHITE
  /\ \E q \in Procs : gameData[q] # Null /\ Stranger(Stored, playerId[q])

\* C17: joinGame of a player who holds a slot already changes nothing and
\* throws nothing, however often it is called: its update function buffers
\* no write on any record the player is seated in, and every step of such a
\* call, its first run, its commit and every later run, leaves the stored
\* games as they are and ends the call, when it ends it, without an error.
C17_RejoinIdempotent ==
  /\ [](\A pid \in PlayerIds :
          ~Stranger(Stored, pid) => joinGameTx(Stored, pid) = Attempt(None, Null, None))
  /\ [][\A p \in Procs :
          (/\ Seated(p)
           /\ call'[p] # call[p]
           /\ \/ JoinInFlight(p)
              \/ call[p] = Null /\ call'[p].op = "joinGame") =>
            /\ db' = db
            /\ call'[p] = Null =>
                 result' = [proc |-> p, op |-> "joinGame", expected |-> 0,
                            error |-> None, ret |-> None]
            /\ (call'[p] # Null /\ call'[p].phase = "commit") =>
                 call'[p].update = Null]_vars

\* the joinGame of a player who holds a slot has run and buffered nothing
\* and awaits its commit, which will go through
C17_Witness ==
  \E p \in Procs :
    /\ JoinInFlight(p) /\ Seated(p)
    /\ call[p].phase = "commit" /\ call[p].update = Null
    /\ call[p].readTime = db[GameId].updateTime

\* both slots of the record are taken
Full(data) == data.players.white # None /\ data.players.black # None

\* C18: the update function of joinGame throws "Game not found" for a game
\* id with no record, and "Game is full" for an id that holds neither slot
\* of a record with both slots taken, buffering no write; and every step of
\* the joinGame of such a player on a full game leaves the stored games as
\* they are, each run of its update function ending the call with "Game is
\* full".
C18_JoinRefused ==
  /\ [](\A g \in GameIds, pid \in PlayerIds :
          IF db[g] = Null
          THEN joinGameOn(db[g], pid) = Attempt(NotFound, Null, None)
          ELSE (Full(db[g].data) /\ Stranger(db[g].data, pid)) =>
                 joinGameOn(db[g], pid) = Attempt(GameFull, Null, None))
  /\ [][\A p \in Procs :
          (/\ Full(Stored) /\ ~Seated(p)
           /\ \/ JoinInFlight(p) /\ call'[p] # call[p]
              \/ call[p] = Null /\ call'[p] # Null /\ call'[p].op = "joinGame"
              \/ /\ call[p] = Null /\ call'[p] = Null
                 /\ result' # result /\ result'.proc = p /\ result'.op = "joinGame") =>
            /\ db' = db
            /\ (call[p] = Null \/ call[p].phase = "run") =>
                 Throws(p, "joinGame", 0, GameFull)]_vars

\* a player who holds neither slot has been refused by the full game, which
\* keeps its two players, while some game id has no record
C18_Witness ==
  /\ result # Null /\ result.op = "joinGame" /\ result.error = GameFull
  /\ Full(Stored) /\ ~Seated(result.proc)
  /\ \E g \in GameIds : db[g] = Null

\* each side has one piece on the board, a king
OneKingEach(board) ==
  \A color \in {WHITE, BLACK} :
    CountPieces(board, color, FALSE) = 1 /\ CountPieces(board, color, TRUE) = 1

\* C19: a move that is committed ends the game on its board: when the player
\* to move next has no legal move on it the record is FINISHED and the
\* mover has won; otherwise, when each side is left with one piece, a king,
\* the record is a DRAW and nobody has won. The win for want of a move comes
\* first: it is what performMove detects on any board, one king each or not,
\* on which the next player has no move.
C19_MoveEndsGame ==
  /\ [](Detected(Stored, JSONparse(Stored.board), TRUE)
          = [status |-> FINISHED, winner |-> Stored.turn])
  /\ [][\A p \in Procs :
          Commits(p, "performMove") =>
            \E noMoves \in {Len(calculateAllowedMoves(JSONparse(Stored'.board),
                                                       Stored'.turn)) = 0} :
              /\ Stored.turn = IF Stored.players.white = playerId[p]
                               THEN WHITE ELSE BLACK
              /\ Stored'.turn = Other(Stored.turn)
              /\ noMoves => Stored'.status = FINISHED /\ Stored'.winner = Stored.turn
              /\ (~noMoves /\ OneKingEach(JSONparse(Stored'.board))) =>
                   Stored'.status = DRAW /\ Stored'.winner = None]_vars

\* a move has been committed that left the player to move next without a
\* move: the game is finished and the mover has won
C19_Witness ==
  /\ result # Null /\ result.op = "performMove" /\ result.error = None
  /\ Stored.lastMove # Null
  /\ Len(calculateAllowedMoves(JSONparse(Stored.board), Stored.turn)) = 0
  /\ Stored.status = FINISHED
  /\ Stored.winner = Other(Stored.turn)
  /\ Stored.players[IF Stored.winner = WHITE THEN "white" ELSE "black"]
       = playerId[result.proc]

\* the move of a call makes the half-move clock start again: it captures, or
\* the piece it moves on the board is not a king
Resets(board, move) ==
  Len(move.captures) > 0 \/ ~board[move.from.row][move.from.col].isKing

\* C20: every move that is committed stores a half-move clock of 0 when it
\* captures or moves a piece that is not a king, and otherwise of 1 more
\* than the clock of the stored record it is committed on; when that reaches
\* the ceiling of 60 and the move has not ended the game by itself, the
\* record is a DRAW; so an ACTIVE record has a half-move clock below 60.
C20_ClockCounts ==
  /\ [](Stored.status = ACTIVE => Stored.halfMoveClock < DrawCeiling)
  /\ [][\A p \in Procs :
          Commits(p, "performMove") =>
            /\ Stored'.halfMoveClock =
                 IF Resets(JSONparse(Stored.board), call[p].args.move)
                 THEN 0 ELSE Stored.halfMoveClock + 1
            /\ Stored'.halfMoveClock >= DrawCeiling =>
                 \E noMoves \in {Len(calculateAllowedMoves(JSONparse(Stored'.board),
                                                            Stored'.turn)) = 0} :
                   Stored'.status = IF noMoves THEN FINISHED ELSE DRAW]_vars

\* a king move without a capture has been committed on a clock of 59: the
\* clock is at the ceiling and the game is drawn, though each side could
\* still move and more than two pieces are left
C20_Witness ==
  /\ result # Null /\ result.op = "performMove" /\ result.error = None
  /\ Stored.halfMoveClock = DrawCeiling
  /\ Stored.previousState.halfMoveClock = DrawCeiling - 1
  /\ Stored.status = DRAW /\ Stored.winner = None
  /\ ~OneKingEach(JSONparse(Stored.board))
  /\ Len(calculateAllowedMoves(JSONparse(Stored.board), Stored.turn)) > 0

\* the update of declareWinner is applied in this step
Declares == call' = call /\ db' # db /\ result'.op = "declareWinner"

\* C21: declareWinner checks no version: whatever the version of the stored
\* record and whatever record its caller holds, it sets the status to
\* FINISHED and the winner to the color its caller, to move without a move,
\* does not play, adds 1 to the version and leaves the rest of the record as
\* it is.
C21_DeclareUnchecked ==
  [][Declares =>
       \E p \in {result'.proc} :
         Stored' = [Stored EXCEPT !.status = FINISHED,
                                  !.winner = Other(myColor(p)),
                                  !.version = @ + 1]]_vars

\* a client has declared its loss from a record older than the stored one:
\* its update has replaced the winner of the resignation that another
\* client still shows
C21_Witness ==
  /\ result # Null /\ result.op = "declareWinner"
  /\ gameData[result.proc].status = ACTIVE
  /\ gameData[result.proc].version = Stored.version - 2
  /\ Stored.status = FINISHED
  /\ \E q \in Procs :
       /\ gameData[q].version = Stored.version - 1
       /\ gameData[q].status = FINISHED
       /\ gameData[q].winner # Stored.winner

\* the record starts the lifecycle of a game over, with pid alone in the
\* slot of color
StartsOver(data, pid, color) ==
  /\ data.status = WAITING /\ data.version = 0 /\ data.halfMoveClock = 0
  /\ data.turn = WHITE /\ data.winner = None
  /\ data.previousState = Null /\ data.takebackRequest = Null
  /\ data.lastMove = Null /\ data.rematchId = None
  /\ JSONparse(data.board) = initializeBoard
  /\ data.players = [white |-> IF color = WHITE THEN pid ELSE None,
                     black |-> IF color = BLACK THEN pid ELSE None]

\* C22: a run of proposeRematch on a record with no rematch link stores a
\* new record that starts the lifecycle over, with the proposer alone in the
\* slot of the color opposite to their old one, and buffers the write of
\* its id; nothing else stores a game; and the commit of that write sets the
\* rematch link of the old record to the id and changes nothing else of it.
C22_RematchStartsOver ==
  [][/\ \A g \in GameIds :
          (db[g] = Null /\ db'[g] # Null) =>
            \E p \in Procs :
              /\ call'[p] # call[p] /\ call'[p] # Null
              /\ call'[p].op = "proposeRematch"
              /\ Stored.rematchId = None
              /\ StartsOver(db'[g].data, call'[p].args.myPlayerId,
                            Other(call'[p].args.myOldColor))
              /\ call'[p].args.myPlayerId = playerId[p]
              /\ Stored.players[IF call'[p].args.myOldColor = WHITE
                                THEN "white" ELSE "black"] = playerId[p]
              /\ call'[p].phase = "commit"
              /\ call'[p].update = [rematchId |-> g] /\ call'[p].ret = g
     /\ \A p \in Procs :
          /\ (/\ call'[p] # call[p] /\ call'[p] # Null
              /\ call'[p].op = "proposeRematch" /\ call'[p].phase = "commit"
              /\ Stored.rematchId = None) =>
               \E g \in GameIds : db[g] = Null /\ db'[g] # Null
          /\ (Commits(p, "proposeRematch") /\ call[p].update # Null) =>
               /\ Stored.rematchId = None
               /\ db[call[p].ret] # Null
               /\ Stored' = [Stored EXCEPT !.rematchId = call[p].ret]]_vars

\* a proposal has gone through with no other made: the old record links to
\* the one successor stored, which waits with the proposer alone on the
\* color that was not theirs
C22_Witness ==
  /\ result # Null /\ result.op = "proposeRematch" /\ result.error = None
  /\ Stored.rematchId # None /\ result.ret = Stored.rematchId
  /\ Successors = {Stored.rematchId}
  /\ \E color \in {WHITE, BLACK} :
       /\ Stored.players[IF color = WHITE THEN "white" ELSE "black"]
            = playerId[result.proc]
       /\ StartsOver(db[Stored.rematchId].data, playerId[result.proc], Other(color))
\* ---- the rule engine

Sides == {WHITE, BLACK}
Diagonals == {<<-1, -1>>, <<-1, 1>>, <<1, -1>>, <<1, 1>>}

\* the board of the stored record
StoredBoard == JSONparse(Stored.board)

\* the squares of the pieces of one color
PiecesOf(board, color) ==
  {pos \in {Pos(r, c) : r \in Idx, c \in Idx} :
     board[pos.row][pos.col] # Null /\ board[pos.row][pos.col].color = color}

\* the square is free to the piece that left the square start
Vacant(board, r, c, start) == board[r][c] = Null \/ Pos(r, c) = start

\* By the rules of the game, the piece that left the square start and stands on
\* pos, having captured the pieces on the squares of captured (which stay on
\* the board until the move ends), can jump: a man over an adjacent enemy, a
\* king over the first piece of a diagonal, onto a free square behind it.
HasJump(board, pos, color, isKing, captured, start) ==
  \E d \in Diagonals :
    \E k \in (IF isKing THEN 1 .. BOARD_SIZE ELSE {1}) :
      /\ InBoard(pos.row + (k + 1) * d[1], pos.col + (k + 1) * d[2])
      /\ \A i \in 1 .. (k - 1) :
           Vacant(board, pos.row + i * d[1], pos.col + i * d[2], start)
      /\ ~Vacant(board, pos.row + k * d[1], pos.col + k * d[2], start)
      /\ board[pos.row + k * d[1]][pos.col + k * d[2]].color # color
      /\ ~SomePos(captured, pos.row + k * d[1], pos.col + k * d[2])
      /\ Vacant(board, pos.row + (k + 1) * d[1], pos.col + (k + 1) * d[2], start)

\* a piece of the color can capture on the board
MustCapture(board, color) ==
  \E pos \in PiecesOf(board, color) :
    HasJump(board, pos, color, board[pos.row][pos.col].isKing, <<>>, pos)

AllCaptures(ms) == \A i \in 1 .. Len(ms) : Len(ms[i].captures) > 0
AllSimple(ms) == \A i \in 1 .. Len(ms) : Len(ms[i].captures) = 0

MandatoryCapture(board, turn, ms) ==
  /\ MustCapture(board, turn) => Len(ms) > 0 /\ AllCaptures(ms)
  /\ AllCaptures(ms) \/ AllSimple(ms)

\* C23: on every board and for either side, when a piece of the side can
\* capture, calculateAllowedMoves returns captures only (and at least one);
\* the list it returns is always all captures or all simple moves.
C23_MandatoryCapture ==
  \A board \in {StoredBoard} : \A turn \in Sides :
    MandatoryCapture(board, turn, calculateAllowedMoves(board, turn))

\* the side to move has a piece that can capture and another that could step
C23_Witness ==
  \E board \in {StoredBoard} :
    /\ Stored.status = ACTIVE
    /\ MustCapture(board, Stored.turn)
    /\ \E pos \in PiecesOf(board, Stored.turn) :
         Len(getSimpleMoves(board, pos, board[pos.row][pos.col])) > 0
    /\ AllCaptures(StoredMoves)
\* the squares of the sequence are all different
NoRepeat(ps) == \A i, j \in 1 .. Len(ps) : ps[i] = ps[j] => i = j

ChainsBounded(board, turn, ms) ==
  \A i \in 1 .. Len(ms) :
    /\ NoRepeat(ms[i].captures)
    /\ \A k \in 1 .. Len(ms[i].captures) :
         ms[i].captures[k] \in PiecesOf(board, Other(turn))
    /\ Len(ms[i].captures) <= Cardinality(PiecesOf(board, Other(turn)))

\* C24: in every move calculateAllowedMoves returns, no square appears twice
\* in captures, every captured square holds an enemy piece on the input board,
\* and the captures are no more than the opponent's pieces.
C24_ChainsBounded ==
  \A board \in {StoredBoard} : \A turn \in Sides :
    ChainsBounded(board, turn, calculateAllowedMoves(board, turn))

\* a chain of four captures that lands on the square it started from
C24_Witness ==
  \E i \in 1 .. Len(StoredMoves) :
    /\ StoredMoves[i].to = StoredMoves[i].from
    /\ Len(StoredMoves[i].captures) = 4
\* the piece of the move is a king once the move is made: it was one, or one
\* of its landing squares is on its promotion row
KingAfter(board, turn, move) ==
  \/ board[move.from.row][move.from.col].isKing
  \/ \E k \in 1 .. Len(move.path) : isPromotionRow(turn, move.path[k].row)

ChainsComplete(board, turn, ms) ==
  \A i \in 1 .. Len(ms) :
    Len(ms[i].captures) > 0 =>
      ~HasJump(board, ms[i].to, turn, KingAfter(board, turn, ms[i]),
               ms[i].captures, ms[i].from)

\* the board of a white man on (5,4) and black men on (4,3) and (2,1)
TwoJumpBoard ==
  BoardOf({<<5, 4, WHITE, FALSE>>, <<4, 3, BLACK, FALSE>>, <<2, 1, BLACK, FALSE>>})

\* C25: every capture calculateAllowedMoves returns is a completed chain: from
\* its last landing square the piece, a king if it was crowned on the way, can
\* jump no enemy it has not captured yet; on the board of a white man on (5,4)
\* and black men on (4,3) and (2,1) the one move of white is the chain of two
\* captures to (1,0).
C25_ChainsComplete ==
  \A board \in {StoredBoard} :
    /\ \A turn \in Sides : ChainsComplete(board, turn, calculateAllowedMoves(board, turn))
    /\ board = TwoJumpBoard =>
         calculateAllowedMoves(board, WHITE) =
           << [from |-> Pos(5, 4), to |-> Pos(1, 0),
               captures |-> <<Pos(4, 3), Pos(2, 1)>>,
               path |-> <<Pos(3, 2), Pos(1, 0)>>, becomesKing |-> FALSE] >>
\* the row farthest from where the men of the color start
FarthestRow(color) == IF color = WHITE THEN 0 ELSE BOARD_SIZE - 1

SimpleCrowns(board, ms) ==
  \A i \in 1 .. Len(ms) :
    Len(ms[i].captures) = 0 =>
      (ms[i].becomesKing <=>
         /\ ~board[ms[i].from.row][ms[i].from.col].isKing
         /\ ms[i].to.row = FarthestRow(board[ms[i].from.row][ms[i].from.col].color))

\* C26: a simple move of a man has becomesKing exactly when it lands on the
\* row farthest from its own start (row 0 for WHITE, row 7 for BLACK), and a
\* simple move of a king never has it: in the simple moves of every piece and
\* in the lists calculateAllowedMoves returns.
C26_SimpleCrowns ==
  \A board \in {StoredBoard} : \A turn \in Sides :
    /\ \A pos \in PiecesOf(board, turn) :
         SimpleCrowns(board, getSimpleMoves(board, pos, board[pos.row][pos.col]))
    /\ SimpleCrowns(board, calculateAllowedMoves(board, turn))

\* black, after a move of white, can step a man onto row 7 and be crowned, or
\* slide a king onto row 7 and not
C26_Witness ==
  /\ Stored.turn = BLACK /\ Stored.lastMove # Null
  /\ \E i, j \in 1 .. Len(StoredMoves) :
       /\ Len(StoredMoves[i].captures) = 0 /\ Len(StoredMoves[j].captures) = 0
       /\ StoredMoves[i].to.row = 7 /\ StoredMoves[i].becomesKing
       /\ StoredMoves[j].to.row = 7 /\ ~StoredMoves[j].becomesKing
       /\ StoredBoard[StoredMoves[j].from.row][StoredMoves[j].from.col].isKing
\* the square the piece stands on before jump j of the move
Before(move, j) == IF j = 1 THEN move.from ELSE move.path[j - 1]

Sign(n) == IF n > 0 THEN 1 ELSE IF n < 0 THEN -1 ELSE 0
Abs(n) == IF n < 0 THEN -n ELSE n

\* jump j of the move is a jump of a flying king: along a diagonal, over the
\* one captured piece at any distance, onto a free square at any distance
\* behind it, with free squares in between
KingJump(board, move, j) ==
  \E a \in {Before(move, j)}, b \in {move.path[j]}, x \in {move.captures[j]} :
    \E dr \in {Sign(b.row - a.row)}, dc \in {Sign(b.col - a.col)},
       n \in {Abs(b.row - a.row)}, e \in {Abs(x.row - a.row)} :
      /\ Abs(b.col - a.col) = n /\ n >= 2
      /\ e >= 1 /\ e < n /\ x = Pos(a.row + e * dr, a.col + e * dc)
      /\ \A i \in 1 .. n :
           i # e => Vacant(board, a.row + i * dr, a.col + i * dc, move.from)

\* the jumps of the move after which its man stands on its promotion row
CrownedAt(board, turn, move) ==
  IF board[move.from.row][move.from.col].isKing THEN {}
  ELSE {k \in 1 .. Len(move.path) : isPromotionRow(turn, move.path[k].row)}

CrownedInChain(board, turn, ms) ==
  \A i \in 1 .. Len(ms) :
    Len(ms[i].captures) > 0 =>
      \A k \in CrownedAt(board, turn, ms[i]) :
        /\ ms[i].becomesKing
        /\ \A j \in (k + 1) .. Len(ms[i].path) : KingJump(board, ms[i], j)

\* C27: when a man lands on its promotion row in the middle of a capture
\* chain, every later jump of the chain is a jump of a flying king, and the
\* move has becomesKing whatever square it ends on.
C27_CrownedInChain ==
  \A board \in {StoredBoard} : \A turn \in Sides :
    CrownedInChain(board, turn, calculateAllowedMoves(board, turn))

\* a returned chain whose man is crowned by its first jump, then jumps an
\* enemy two squares away and ends off its promotion row
C27_Witness ==
  \E i \in 1 .. Len(StoredMoves) :
    \E m \in {StoredMoves[i]} :
      /\ 1 \in CrownedAt(StoredBoard, Stored.turn, m)
      /\ Len(m.path) = 2
      /\ Abs(m.captures[2].row - m.path[1].row) = 2
      /\ ~isPromotionRow(Stored.turn, m.to.row)
      /\ m.becomesKing
\* what applyMove returns for the move on the board, square by square
MovedOn(board, move, newBoard) ==
  \E p \in {board[move.from.row][move.from.col]} :
    /\ newBoard[move.to.row][move.to.col] = Piece(p.color, p.isKing \/ move.becomesKing)
    /\ move.from # move.to => newBoard[move.from.row][move.from.col] = Null
    /\ \A k \in 1 .. Len(move.captures) :
         newBoard[move.captures[k].row][move.captures[k].col] = Null
    /\ \A r, c \in Idx :
         (/\ Pos(r, c) # move.from /\ Pos(r, c) # move.to
          /\ \A k \in 1 .. Len(move.captures) : Pos(r, c) # move.captures[k])
         => newBoard[r][c] = board[r][c]
    /\ Cardinality(PiecesOf(newBoard, p.color)) = Cardinality(PiecesOf(board, p.color))
    /\ Cardinality(PiecesOf(newBoard, Other(p.color)))
         = Cardinality(PiecesOf(board, Other(p.color))) - Len(move.captures)

\* what applyMove leaves in memory: the board it returns, and the board it
\* was given as it was
AppliedIn(board, newBoard, after) ==
  /\ Deref(after.store, after.rows) = newBoard
  /\ Deref(after.store, InputRows) = board

Applied(board, ms) ==
  \A i \in 1 .. Len(ms) :
    /\ MovedOn(board, ms[i], applyMove(board, ms[i]))
    /\ AppliedIn(board, applyMove(board, ms[i]),
                 applyMoveIn(StoreOf(board), InputRows, ms[i]))

\* C28: for every legal move on every board, applyMove returns a board with
\* the moving piece on move.to, of its color and a king if it was one or the
\* move has becomesKing, with move.from empty unless it is move.to, every
\* captured square empty and every other square as on the input; the mover's
\* pieces are as many as before and the opponent's fewer by the captures; the
\* board passed in is left as it was.
C28_Applied ==
  \A board \in {StoredBoard} : \A turn \in Sides :
    Applied(board, calculateAllowedMoves(board, turn))

\* the chain that comes back to its start square has been played: the man
\* stands where it stood and four of the five black men are gone
C28_Witness ==
  /\ Stored.lastMove # Null
  /\ Stored.lastMove.from = Stored.lastMove.to
  /\ StoredBoard[Stored.lastMove.to.row][Stored.lastMove.to.col] = Piece(WHITE, FALSE)
  /\ Cardinality(PiecesOf(StoredBoard, BLACK)) = 1
\* the rows the men of the color start on
StartRows(color) == IF color = BLACK THEN 0 .. 2 ELSE 5 .. 7

\* twelve men of each color on the dark squares of its three rows
StartPosition(board) ==
  \A r, c \in Idx :
    board[r][c] =
      IF (r + c) % 2 = 1 /\ r \in StartRows(BLACK) THEN Piece(BLACK, FALSE)
      ELSE IF (r + c) % 2 = 1 /\ r \in StartRows(WHITE) THEN Piece(WHITE, FALSE)
      ELSE Null

DarkSquares(board) ==
  \A r, c \in Idx : board[r][c] # Null => (r + c) % 2 = 1

NoManOnLastRow(board) ==
  \A r, c \in Idx :
    (board[r][c] # Null /\ ~board[r][c].isKing) => r # FarthestRow(board[r][c].color)

\* C29: the initial board has twelve men of each color on the dark squares of
\* rows 0-2 (BLACK) and 5-7 (WHITE); in a game played from it by legal moves
\* of alternating sides every piece stands on a square with row + col odd and
\* no man stands on its own promotion row.
C29_DarkSquares ==
  /\ StartPosition(initializeBoard)
  /\ \A color \in Sides : Cardinality(PiecesOf(initializeBoard, color)) = 12
  /\ \A board \in {StoredBoard} : DarkSquares(board) /\ NoManOnLastRow(board)

\* a move played on from a position of the game has landed a white man on
\* row 0, where a white king now stands
C29_Witness ==
  /\ Stored.lastMove # Null /\ Stored.lastMove.to.row = 0
  /\ StoredBoard[0][Stored.lastMove.to.col] = Piece(WHITE, TRUE)
  /\ Stored.previousState # Null
  /\ Cardinality(PiecesOf(StoredBoard, WHITE)) + Cardinality(PiecesOf(StoredBoard, BLACK)) < 24
  /\ db[GameId].updateTime > 1
\* ---- the bot

BotAnswered == result # Null /\ result.op = "getSmartBotMove"

BotMoveLegal(board, botColor, ms, move, reads) ==
  /\ move = Null <=> Len(ms) = 0
  /\ Len(ms) > 0 => \E i \in 1 .. Len(ms) : move = ms[i]
  /\ MustCapture(board, botColor) => move # Null /\ Len(move.captures) > 0
  /\ Len(ms) = 1 => move = ms[1] /\ reads = 0

\* C30: getSmartBotMove returns null exactly when the bot's color has no legal
\* move on the board; otherwise it returns one of the moves of
\* calculateAllowedMoves, a capture when a capture is mandatory; when there is
\* one legal move it returns it without reading the clock, that is, without
\* entering the search.
C30_BotMoveLegal ==
  BotAnswered =>
    BotMoveLegal(result.board, result.botColor,
                 calculateAllowedMoves(result.board, result.botColor),
                 result.move, result.reads)

\* with a capture mandatory and several captures to choose from, the time
\* limit passes in the middle of the search and a capture is returned
C30_Witness ==
  /\ BotAnswered
  /\ Len(calculateAllowedMoves(result.board, result.botColor)) > 1
  /\ MustCapture(result.board, result.botColor)
  /\ result.deadline.expires /\ result.reads > result.deadline.after
  /\ result.deadline.after > 0
  /\ result.move # Null /\ Len(result.move.captures) > 0

\* ---- the search

Searched(op) == result # Null /\ result.op = op

\* no clock read of the search found the time limit passed
NoTimeout == ~result.deadline.expires \/ result.deadline.after >= result.reads

\* the side to move at the node has no legal move
NoMoveFor(board, isMaximizing, botColor) ==
  Len(calculateAllowedMoves(board, TurnOf(isMaximizing, botColor))) = 0

\* what minimax returns for the node at another depth, the limit never passed
ValueAt(board, depth, isMaximizing, botColor) ==
  minimax(board, depth, 0 - INFINITY, INFINITY, isMaximizing, botColor, 0,
          [expires |-> FALSE, after |-> 0]).value

\* the node is one the bot has won (the opponent is to move) or lost (the bot
\* is to move), and it scores better for the bot than the same node found
\* with less depth remaining, that is, more plies into the search
FasterScoresBetter(board, depth, isMaximizing, botColor, value) ==
  \A slower \in 1 .. depth - 1 :
    IF isMaximizing
    THEN value < ValueAt(board, slower, isMaximizing, botColor)
    ELSE value > ValueAt(board, slower, isMaximizing, botColor)

\* C31: the terminal score minimax returns for a side with no legal moves is
\* biased by the remaining depth so that, from the bot's perspective, a win
\* reached in fewer plies scores strictly higher than a win reached in more
\* plies, and a loss reached in fewer plies scores strictly lower than a loss
\* reached in more plies.
C31_FasterScoresBetter ==
  /\ Searched("minimax") /\ NoTimeout /\ result.depth >= 1
  /\ NoMoveFor(result.board, result.isMaximizing, result.botColor)
  => FasterScoresBetter(result.board, result.depth, result.isMaximizing,
                        result.botColor, result.value)

\* the score of a node where the side to move has lost
TerminalScore(depth, isMaximizing) ==
  IF isMaximizing THEN 0 - SCORES.WIN + depth ELSE SCORES.WIN - depth

\* C32: whenever the side to move has no legal move and no timeout has fired,
\* minimax returns the terminal score (SCORES.WIN adjusted by the depth,
\* negative when the bot is to move), at every depth, depth 0 included, where
\* it hands over to quiescence.
C32_TerminalScore ==
  /\ Searched("minimax") /\ NoTimeout
  /\ NoMoveFor(result.board, result.isMaximizing, result.botColor)
  => result.value = TerminalScore(result.depth, result.isMaximizing)

\* C33: evaluateBoard is antisymmetric in the perspective color: the score of
\* a board for WHITE is the negative of its score for BLACK.
C33_Antisymmetric ==
  Searched("evaluateBoard") =>
    result.value = 0 - evaluateBoard(result.board, Other(result.color))

\* a board with a king and a man in the center is scored for black, and the
\* score is not zero
C33_Witness ==
  /\ Searched("evaluateBoard") /\ result.color = BLACK /\ result.value # 0
  /\ \E r, c \in Idx : result.board[r][c] # Null /\ result.board[r][c].isKing
  /\ \E r, c \in 2 .. 5 : result.board[r][c] # Null /\ ~result.board[r][c].isKing

\* the time limit was found passed at the first clock read of the call
TimedOutAtEntry == result.deadline.expires /\ result.deadline.after = 0

\* the plies a search can go below the board it is given: it applies a move
\* only after a clock read that found the limit not passed
PliesWithin(most) ==
  /\ result.plies <= most
  /\ result.deadline.expires => result.plies <= result.deadline.after

\* the call returned the static evaluation after one clock read, without
\* applying a move
ReturnedEvaluation ==
  /\ result.value = evaluateBoard(result.board, result.botColor)
  /\ result.reads = 1 /\ result.plies = 0

\* C34: getSmartBotMove always returns. Below a root move the search goes at
\* most MAX_DEPTH - 1 plies of minimax and then at most MAX_Q_DEPTH plies of
\* quiescence, whether the time limit is ever found passed or not; minimax
\* from depth d goes at most d + MAX_Q_DEPTH plies and quiescence from qDepth
\* q at most q. A call of minimax or quiescence that finds the limit passed
\* at its entry returns the static evaluation without recursing, and the
\* root loop that finds it passed stops without searching a move.
C34_SearchBounded ==
  /\ Searched("getSmartBotMove") =>
       /\ PliesWithin(MAX_DEPTH - 1 + MAX_Q_DEPTH)
       /\ result.deadline.expires /\ result.reads > 0 =>
            result.plies < result.deadline.after \/ result.plies = 0
       /\ TimedOutAtEntry /\ result.reads > 0 =>
            result.reads = 1 /\ result.plies = 0 /\ result.move # Null
  /\ Searched("minimax") =>
       /\ PliesWithin(result.depth + MAX_Q_DEPTH)
       /\ TimedOutAtEntry => ReturnedEvaluation
  /\ Searched("quiescence") =>
       /\ PliesWithin(result.depth)
       /\ TimedOutAtEntry => ReturnedEvaluation

\* the whole search of the bot, the limit never passed: it went the full
\* MAX_DEPTH - 1 plies of minimax and MAX_Q_DEPTH plies of quiescence below a
\* root move, and returned a move
C34_Witness ==
  /\ Searched("getSmartBotMove") /\ ~result.deadline.expires
  /\ result.plies = MAX_DEPTH - 1 + MAX_Q_DEPTH
  /\ result.move # Null

\* ---- the store, once more

\* C35: running proposeRematch in a transaction keeps both players from
\* creating a new game: however the proposals on the game interleave, a run
\* that loses its commit and is run again included, at most one new game
\* record is ever created.
C35_OneSuccessor == Cardinality(Successors) <= 1

\* ---- the rule engine, once more

\* the capture chains getCaptureMoves explores to their end from the pieces
\* of the side are all among the moves ms
AllChainsKept(board, turn, ms) ==
  \A pos \in PiecesOf(board, turn) :
    \A chains \in {getCaptureMoves(board, pos, board[pos.row][pos.col],
                                    <<>>, <<>>, <<>>, pos)} :
      \A k \in 1 .. Len(chains) : \E i \in 1 .. Len(ms) : ms[i] = chains[k]

\* C36: calculateAllowedMoves enforces no longest-chain rule: every completed
\* capture chain of every piece of the side is returned as a move of its own,
\* the shorter chains beside the longer ones, whether they start from the same
\* piece or from different pieces.
C36_AllChainsKept ==
  \A board \in {StoredBoard} : \A turn \in Sides :
    AllChainsKept(board, turn, calculateAllowedMoves(board, turn))

\* the side to move is offered two chains of one piece with different numbers
\* of captures, and a shorter chain of another piece beside a longer one
C36_Witness ==
  /\ Stored.status = ACTIVE
  /\ \E ms \in {StoredMoves} :
       /\ \E i, j \in 1 .. Len(ms) :
            /\ ms[i].from = ms[j].from
            /\ Len(ms[i].captures) > Len(ms[j].captures)
       /\ \E i, j \in 1 .. Len(ms) :
            /\ ms[i].from # ms[j].from
            /\ Len(ms[i].captures) > Len(ms[j].captures)

\* C37: in every stored state of a game record the winner is set exactly when
\* the status is FINISHED: no FINISHED record is without a winner, and no
\* WAITING, ACTIVE or DRAW record has one.
C37_WinnerIffFinished ==
  \A g \in StoredGames :
    db[g].data.winner # None <=> db[g].data.status = FINISHED

\* a move left the side to move without a legal move: the record is FINISHED
\* and the winner is the side that moved
C37_Witness ==
  /\ Stored.status = FINISHED /\ Stored.winner = Other(Stored.turn)
  /\ Stored.lastMove # Null
  /\ Len(calculateAllowedMoves(StoredBoard, Stored.turn)) = 0

\* the move of the call is a legal move of the stored position, the record
\* the call was made on has the stored board and turn, and the record after
\* the commit holds the board applyMove makes of the stored board, the other
\* side to move, and the outcome computed on that board
CommittedOn(c, before, after) ==
  /\ c.args.gameData.version = before.version
  /\ c.args.gameData.board = before.board
  /\ c.args.gameData.turn = before.turn
  /\ \E ms \in {calculateAllowedMoves(JSONparse(before.board), before.turn)} :
       \E i \in 1 .. Len(ms) : ms[i] = c.args.move
  /\ after.board = JSONstringify(applyMove(JSONparse(before.board), c.args.move))
  /\ after.turn = Other(before.turn)
  /\ \E noMoves \in {Len(calculateAllowedMoves(JSONparse(after.board), after.turn)) = 0} :
       /\ after.winner = (IF noMoves THEN before.turn ELSE None)
       /\ after.status = FINISHED <=> noMoves

\* C38: at every commit of a move the board written is applyMove of the
\* board stored just before the commit and the move, and the status and
\* winner computed before the transaction were computed from that stored
\* board: the record the caller computed them on has the version of the
\* stored record, and with it the same board and turn.
C38_CommittedBoard ==
  [][\A p \in Procs :
       Commits(p, "performMove") /\ db' # db => CommittedOn(call[p], Stored, Stored')]_vars

\* the call that ended last is a move committed on a record that had been
\* written since the game started, and the stored board is not the board
\* before the move
C38_Witness ==
  /\ result # Null /\ result.op = "performMove" /\ result.error = None
  /\ Stored.lastMove # Null /\ Stored.version > 2
  /\ Stored.previousState # Null
  /\ Stored.board # Stored.previousState.board

\* C39: resolveTakeback, accepted or rejected, never changes the status, the
\* winner, the players or the rematch link of the record; an accepted
\* takeback of a move that ended the game leaves the record FINISHED or DRAW,
\* with its winner, on the board, turn and half-move clock before the move.
C39_TakebackKeepsOutcome ==
  [][\A p \in Procs :
       Commits(p, "resolveTakeback") =>
         /\ Stored'.status = Stored.status
         /\ Stored'.winner = Stored.winner
         /\ Stored'.players = Stored.players
         /\ Stored'.rematchId = Stored.rematchId
         /\ (/\ call[p].args.accepted /\ Stored.previousState # Null
             /\ Stored.status \in {FINISHED, DRAW}) =>
               /\ Stored'.status \in {FINISHED, DRAW}
               /\ Stored'.board = Stored.previousState.board
               /\ Stored'.turn = Stored.previousState.turn
               /\ Stored'.halfMoveClock = Stored.previousState.halfMoveClock]_vars

\* the capture that took the last black man has been taken back: the record
\* is FINISHED, won by white, white is to move and the black man is on the
\* board
C39_Witness ==
  /\ result # Null /\ result.op = "resolveTakeback" /\ result.error = None
  /\ Stored.status = FINISHED /\ Stored.winner = WHITE
  /\ Stored.previousState = Null /\ Stored.takebackRequest = Null
  /\ Stored.turn = WHITE
  /\ PiecesOf(StoredBoard, BLACK) # {}
  /\ MustCapture(StoredBoard, WHITE)


\* ---- the client, once more

\* the move of p is committed and p still holds its optimistic record: the
\* flag is cleared only by the catch of executeMove and by a snapshot
OwnMoveCommitted(p) == pendingMove[p] /\ call[p] = Null

\* p holds the stored record and its pending flag is cleared
SeesStored(p) == ~pendingMove[p] /\ gameData[p] = Stored

\* the performMove of p ends with an error in this step
MoveFails(p) ==
  /\ call[p] # Null /\ call[p].op = "performMove"
  /\ call'[p] = Null /\ result'.error # None

\* C40: after its own performMove commits, a client in the end holds the
\* stored record (version, status, winner, halfMoveClock, previousState) in
\* place of its optimistic one, with the pending flag cleared, also when no
\* other write to the game follows; when its performMove fails, its record is
\* again the one it held before the optimistic update and the flag is
\* cleared.
C40_OwnMoveSeen ==
  /\ \A p \in Procs : OwnMoveCommitted(p) ~> SeesStored(p)
  /\ [][\A p \in Procs :
          MoveFails(p) =>
            /\ ~pendingMove'[p]
            /\ gameData'[p] = call[p].args.gameData]_vars
====
